---------------------------- MODULE Spec2Model ----------------------------
(***************************************************************************)
(* A model of the retrieval-and-answer pipeline of the RAG chatbot         *)
(* backend: the embedding service (src/services/EmbeddingService.js), the  *)
(* RAG service (src/services/RAGService.js), the text functions of the     *)
(* ingestion service (src/services/NewsIngestionService.js) and the chat   *)
(* routes (src/routes/chat.js).                                            *)
(*                                                                         *)
(* Strings are sequences of one-character strings, so that length,         *)
(* substring, split, trim and includes are computed as JavaScript computes *)
(* them.  A literal fragment of a template string is kept as one element   *)
(* of the sequence (its length is never measured by the code).  A field    *)
(* that is undefined in JavaScript is modelled by the empty string where   *)
(* the code reads it through `x || ''`.                                    *)
(***************************************************************************)
EXTENDS Integers, Sequences, FiniteSets, TLC

VARIABLES
    nodeEnv,     \* process.env.NODE_ENV
    emb,         \* one call of the embedding service: its input, outcome and result
    collExists,  \* the Qdrant collection 'news_articles' exists
    points,      \* the collection's points: id -> [vector, payload]
    st,          \* the storeArticles call in progress (its locals and its result)
    rq,          \* the chat request in progress (its locals and its response)
    fn,          \* one call of a text function: its arguments and its result
    bt,          \* the batchGenerateEmbeddings call in progress (its locals)
    fd,          \* the processSingleFeed call in progress (its locals)
    run,         \* the run of the ingestion script in progress
    cc,          \* the calls of the RAG service that run concurrently
    sm,          \* the session store and the session calls in progress
    ig           \* the ingestComprehensiveArticles call in progress (its locals)

vars == <<nodeEnv, emb, collExists, points, st, rq, fn, bt, fd, run, cc, sm, ig>>

-----------------------------------------------------------------------------
(* Bounds of the model *)

\* longest batch of texts / articles handed to one call
MaxBatch == 2

-----------------------------------------------------------------------------
(* JavaScript strings *)

Min(a, b) == IF a < b THEN a ELSE b

UpperCase == {"A", "B", "C", "D", "E", "F", "G", "H", "I", "J", "K", "L", "M", "N", "O", "P", "Q", "R", "S", "T", "U", "V", "W", "X", "Y", "Z"}
LowerCase == {"a", "b", "c", "d", "e", "f", "g", "h", "i", "j", "k", "l", "m", "n", "o", "p", "q", "r", "s", "t", "u", "v", "w", "x", "y", "z"}
Digits == {"0", "1", "2", "3", "4", "5", "6", "7", "8", "9"}

\* \s of a JavaScript regular expression (the characters the model uses)
Whitespace == {" ", "\t", "\n"}

\* \w of a JavaScript regular expression
WordChars == UpperCase \cup LowerCase \cup Digits \cup {"_"}

LowerOf == ("A" :> "a") @@ ("B" :> "b") @@ ("C" :> "c") @@ ("D" :> "d") @@ ("E" :> "e") @@ ("F" :> "f") @@ ("G" :> "g") @@ ("H" :> "h") @@ ("I" :> "i") @@ ("J" :> "j") @@ ("K" :> "k") @@ ("L" :> "l") @@ ("M" :> "m") @@ ("N" :> "n") @@ ("O" :> "o") @@ ("P" :> "p") @@ ("Q" :> "q") @@ ("R" :> "r") @@ ("S" :> "s") @@ ("T" :> "t") @@ ("U" :> "u") @@ ("V" :> "v") @@ ("W" :> "w") @@ ("X" :> "x") @@ ("Y" :> "y") @@ ("Z" :> "z")

\* String.prototype.toLowerCase
toLowerCase(s) == [i \in 1..Len(s) |-> IF s[i] \in UpperCase THEN LowerOf[s[i]] ELSE s[i]]

\* String.prototype.substring(from, to), both 0-based, to exclusive
substring(s, from, to) == SubSeq(s, from + 1, Min(to, Len(s)))

\* a JavaScript undefined where a string is expected
Undefined == <<"#undefined">>

\* a truthy value is a non-empty string: '' and undefined are falsy
IsTruthy(x) == x # Undefined /\ Len(x) > 0

\* x || y
Or(x, y) == IF IsTruthy(x) THEN x ELSE y

\* ${x} inside a template string
Interpolate(x) == IF x = Undefined THEN <<"u", "n", "d", "e", "f", "i", "n", "e", "d">> ELSE x

\* String.prototype.trim
trim(s) ==
    LET solid == {i \in 1..Len(s) : s[i] \notin Whitespace}
    IN  IF solid = {} THEN <<>>
        ELSE SubSeq(s, CHOOSE i \in solid : \A j \in solid : i <= j,
                       CHOOSE i \in solid : \A j \in solid : i >= j)

\* String.prototype.includes
includes(s, w) ==
    \E i \in 0..(Len(s) - Len(w)) : SubSeq(s, i + 1, i + Len(w)) = w

\* s.replace(/\s+/g, ' '): every run of whitespace becomes one space
CollapseWhitespace(s) ==
    LET marked == [i \in 1..Len(s) |->
                      IF s[i] \notin Whitespace THEN <<s[i]>>
                      ELSE IF i = 1 \/ s[i - 1] \notin Whitespace THEN <<" ">>
                      ELSE <<>>]
        kept == SelectSeq(marked, LAMBDA m : m # <<>>)
    IN  [i \in 1..Len(kept) |-> kept[i][1]]

\* s.replace(/[^\w\s\.,!?-]/g, ''): every other character is removed
KeptByCleanText == WordChars \cup Whitespace \cup {".", ",", "!", "?", "-"}
RemoveSpecial(s) == SelectSeq(s, LAMBDA c : c \in KeptByCleanText)

\* the pieces of s between the separators, the j-th of which begins at
\* starts[j] and ends at ends[j]
Pieces(s, starts, ends) ==
    [j \in 1..(Len(starts) + 1) |->
        SubSeq(s, IF j = 1 THEN 1 ELSE ends[j - 1] + 1,
                  IF j = Len(starts) + 1 THEN Len(s) ELSE starts[j] - 1)]

\* s.split(sep) for a one-character separator: adjacent separators give ''
split(s, sep) ==
    LET at == SelectSeq([i \in 1..Len(s) |-> i], LAMBDA i : s[i] = sep)
    IN  Pieces(s, at, at)

\* s.split(/[.!?]+/): a run of terminators is one separator
SentenceEnd == {".", "!", "?"}
SplitSentences(s) ==
    LET starts == SelectSeq([i \in 1..Len(s) |-> i],
                      LAMBDA i : s[i] \in SentenceEnd
                                   /\ (i = 1 \/ s[i - 1] \notin SentenceEnd))
        ends == SelectSeq([i \in 1..Len(s) |-> i],
                    LAMBDA i : s[i] \in SentenceEnd
                                 /\ (i = Len(s) \/ s[i + 1] \notin SentenceEnd))
    IN  Pieces(s, starts, ends)

\* all sequences over S of length 0..n
SeqsUpTo(S, n) == UNION {[1..m -> S] : m \in 0..n}

\* the permutations of 1..n, as sequences
Perms(n) == {p \in [1..n -> 1..n] : \A i, j \in 1..n : p[i] = p[j] => i = j}

-----------------------------------------------------------------------------
(* EmbeddingService *)

CleanTextLimit == 8000
JinaDimensions == 1024
DummyDimensions == 512

NodeEnvs == {"production", "development", "test"}

\* EmbeddingService.cleanText
cleanText(text) ==
    IF ~IsTruthy(text) THEN <<>>
    ELSE substring(trim(RemoveSpecial(CollapseWhitespace(text))), 0, CleanTextLimit)

\* the vector the embedding provider computes for one input text
ProviderVector(text) == [src |-> "jina", of |-> text, dim |-> JinaDimensions]

\* Array.from({length: 512}, () => Math.random() * 2 - 1): the values are
\* random, only the shape is fixed
DummyVector == [src |-> "random", of |-> <<>>, dim |-> DummyDimensions]

\* no vector at all
NoVector == [src |-> "none", of |-> <<>>, dim |-> 0]

\* EmbeddingService.generateDummyEmbeddings
generateDummyEmbeddings(texts) ==
    [i \in 1..Len(texts) |->
        [embedding |-> DummyVector, text |-> cleanText(texts[i]),
         dimensions |-> DummyDimensions]]

\* what one POST to the embedding provider can end with: a 2xx body holding
\* one item per input, in the order perm, each tagged with its input index;
\* a non-2xx status; a timeout; a body without data; an item without embedding
EmbedFailures == {"status", "timeout", "nodata", "noembedding"}
EmbedOutcomes(n) ==
    {[kind |-> "ok", perm |-> p] : p \in Perms(n)}
        \cup {[kind |-> k, perm |-> <<>>] : k \in EmbedFailures}

\* the body's data array for the request input under outcome o
ProviderData(input, o) ==
    [i \in 1..Len(input) |->
        [embedding |-> ProviderVector(input[o.perm[i]]), index |-> o.perm[i]]]

\* the catch block of generateEmbeddings
EmbedCatch(inputTexts, env, requests) ==
    IF env = "development"
    THEN [raised |-> FALSE, value |-> generateDummyEmbeddings(inputTexts),
          requests |-> requests]
    ELSE [raised |-> TRUE, value |-> <<>>, requests |-> requests]

\* the input of the request generateEmbeddings sends for texts
cleanedTextsOf(texts) ==
    [i \in 1..Len(texts) |-> substring(cleanText(texts[i]), 0, CleanTextLimit)]

\* EmbeddingService.generateEmbeddings: the result (returned value or raised
\* error) and the number of provider requests issued
generateEmbeddings(texts, env, o) ==
    LET inputTexts == texts
        cleanedTexts == [i \in 1..Len(inputTexts) |->
                            substring(cleanText(inputTexts[i]), 0, CleanTextLimit)]
    IN  IF Len(inputTexts) = 0 THEN EmbedCatch(inputTexts, env, 0)
        ELSE IF o.kind # "ok" THEN EmbedCatch(inputTexts, env, 1)
        ELSE LET data == ProviderData(cleanedTexts, o)
             IN  [raised |-> FALSE,
                  value |-> [i \in 1..Len(data) |->
                               [embedding |-> data[i].embedding,
                                text |-> cleanedTexts[data[i].index],
                                dimensions |-> data[i].embedding.dim]],
                  requests |-> 1]

\* EmbeddingService.generateQueryEmbedding: the vector, or the raised error
generateQueryEmbedding(query, env, o) ==
    LET embeddings == generateEmbeddings(<<query>>, env, o)
    IN  IF embeddings.raised \/ Len(embeddings.value) = 0
        THEN [raised |-> TRUE, value |-> NoVector, requests |-> embeddings.requests]
        ELSE [raised |-> FALSE, value |-> embeddings.value[1].embedding,
              requests |-> embeddings.requests]


-----------------------------------------------------------------------------
(* NewsIngestionService: the text functions *)

IngestTextLimit == 2000

Letters == UpperCase \cup LowerCase

\* position j of s lies in a match of /<[^>]*>/g: the first '>' at or after
\* j closes a tag opened by a '<' at or before j
InTag(s, j) ==
    \E e \in j..Len(s) :
        /\ s[e] = ">"
        /\ \A m \in j..(e - 1) : s[m] # ">"
        /\ \E i \in 1..j : s[i] = "<" /\ \A m \in i..(j - 1) : s[m] # ">"

\* position j of s lies in a match of /&#\d+;/g
InNumericEntity(s, j) ==
    \E i \in 1..j :
        /\ s[i] = "&"
        /\ \E e \in j..Len(s) :
              /\ e >= i + 3
              /\ s[i + 1] = "#"
              /\ s[e] = ";"
              /\ \A m \in (i + 2)..(e - 1) : s[m] \in Digits

\* position j of s lies in a match of /&[a-zA-Z]+;/g
InNamedEntity(s, j) ==
    \E i \in 1..j :
        /\ s[i] = "&"
        /\ \E e \in j..Len(s) :
              /\ e >= i + 2
              /\ s[e] = ";"
              /\ \A m \in (i + 1)..(e - 1) : s[m] \in Letters

\* s.replace(/<[^>]*>/g, '')
RemoveTags(s) ==
    LET kept == SelectSeq([j \in 1..Len(s) |-> j], LAMBDA j : ~InTag(s, j))
    IN  [j \in 1..Len(kept) |-> s[kept[j]]]

\* s.replace(/&#\d+;/g, '')
RemoveNumericEntities(s) ==
    LET kept == SelectSeq([j \in 1..Len(s) |-> j], LAMBDA j : ~InNumericEntity(s, j))
    IN  [j \in 1..Len(kept) |-> s[kept[j]]]

\* s.replace(/&[a-zA-Z]+;/g, '')
RemoveNamedEntities(s) ==
    LET kept == SelectSeq([j \in 1..Len(s) |-> j], LAMBDA j : ~InNamedEntity(s, j))
    IN  [j \in 1..Len(kept) |-> s[kept[j]]]

\* NewsIngestionService.cleanText
ingestCleanText(text) ==
    IF ~IsTruthy(text) THEN <<>>
    ELSE substring(
             trim(CollapseWhitespace(
                 RemoveNamedEntities(RemoveNumericEntities(RemoveTags(text))))),
             0, IngestTextLimit)

-----------------------------------------------------------------------------
(* NewsIngestionService.processArticleItem *)

MinTitleLength == 10
MinDescriptionLength == 30
MinWordCount == 10

\* new URL(url).toString() for the links of the model: the host in lower
\* case; a text that is no URL makes the constructor throw
UrlMarkets == <<"https://Example.com/markets">>
UrlMarketsNormal == <<"https://example.com/markets">>
IsUrl(url) == url \in {UrlMarkets, UrlMarketsNormal}
UrlToString(url) == IF url = UrlMarkets THEN UrlMarketsNormal ELSE url

\* NewsIngestionService.cleanUrl
cleanUrl(url) ==
    IF ~IsTruthy(url) THEN <<>>
    ELSE IF IsUrl(url) THEN UrlToString(url)
    ELSE trim(url)

\* new Date(dateStr).toISOString() for the dates of the model
DateRfc == <<"Fri, 05 Jan 2024 10:00:00 GMT">>
DateIso == <<"2024-01-05T10:00:00.000Z">>

\* NewsIngestionService.parseDate: an unreadable date makes toISOString
\* throw, and the catch block answers with the present time
parseDate(dateStr) ==
    IF ~IsTruthy(dateStr) THEN <<"<now>">>
    ELSE IF dateStr \in {DateRfc, DateIso} THEN DateIso
    ELSE <<"<now>">>

\* NewsIngestionService.countWords
countWords(text) ==
    IF ~IsTruthy(text) THEN 0
    ELSE Cardinality({i \in 1..Len(text) :
                         /\ text[i] \notin Whitespace
                         /\ (i = 1 \/ text[i - 1] \in Whitespace)})

\* NewsIngestionService.isValidArticle
isValidArticle(article) ==
    /\ IsTruthy(article.title)
    /\ Len(article.title) >= MinTitleLength
    /\ IsTruthy(article.description)
    /\ Len(article.description) >= MinDescriptionLength
    /\ IsTruthy(article.url)
    /\ IsTruthy(article.source)
    /\ article.wordCount > MinWordCount
    /\ IsTruthy(article.pubDate)

\* NewsIngestionService.processArticleItem: the article (the fields that
\* storeArticles and isValidArticle read; an article has no link field), or
\* the error of an item that is too short or not valid
processArticleItem(item, feed, category) ==
    LET title == ingestCleanText(Or(item.title, <<"U", "n", "t", "i", "t", "l", "e", "d", " ", "A", "r", "t", "i", "c", "l", "e">>))
        first == ingestCleanText(
                     Or(item.contentSnippet, Or(item.description,
                        Or(item.contentEncoded, Or(item.summary,
                           Or(item.content, <<>>))))))
        description == IF ~IsTruthy(first) /\ IsTruthy(item.contentColonEncoded)
                       THEN ingestCleanText(item.contentColonEncoded)
                       ELSE first
        article == [title |-> title,
                    description |-> description,
                    content |-> description,
                    url |-> cleanUrl(Or(item.link, Or(item.guid, <<>>))),
                    source |-> ingestCleanText(Or(feed.title, <<"U", "n", "k", "n", "o", "w", "n", " ", "S", "o", "u", "r", "c", "e">>)),
                    pubDate |-> parseDate(Or(item.pubDate, item.isoDate)),
                    category |-> category,
                    wordCount |-> countWords(description),
                    link |-> Undefined]
    IN  IF ~IsTruthy(title) \/ Len(title) < MinTitleLength
        THEN [raised |-> TRUE, value |-> article]
        ELSE IF ~IsTruthy(description) \/ Len(description) < MinDescriptionLength
        THEN [raised |-> TRUE, value |-> article]
        ELSE IF ~isValidArticle(article)
        THEN [raised |-> TRUE, value |-> article]
        ELSE [raised |-> FALSE, value |-> article]

\* the items of a feed: a complete one, one whose title is too short, one
\* without a link
FeedExample == [title |-> <<"E", "x", "a", "m", "p", "l", "e", " ", "N", "e", "w", "s">>]
ItemMarkets ==
    [title |-> <<"M", "a", "r", "k", "e", "t", "s", " ", "<", "b", ">", "r", "a", "l", "l", "y", "<", "/", "b", ">", " ", "a", "s", " ", "r", "a", "t", "e", "s", " ", "h", "o", "l", "d">>,
     contentSnippet |-> <<"S", "t", "o", "c", "k", "s", " ", "r", "o", "s", "e", " ", "o", "n", " ", "M", "o", "n", "d", "a", "y", " ", "a", "f", "t", "e", "r", " ", "t", "h", "e", " ", "c", "e", "n", "t", "r", "a", "l", " ", "b", "a", "n", "k", " ", "h", "e", "l", "d", " ", "r", "a", "t", "e", "s", " ", "s", "t", "e", "a", "d", "y", " ", "&", "a", "m", "p", ";", " ", "s", "i", "g", "n", "a", "l", "l", "e", "d", " ", "c", "u", "t", "s", ".">>,
     description |-> Undefined, contentEncoded |-> Undefined, summary |-> Undefined,
     content |-> Undefined, contentColonEncoded |-> Undefined,
     link |-> UrlMarkets, guid |-> Undefined,
     pubDate |-> DateRfc, isoDate |-> Undefined]
ItemShortTitle == [ItemMarkets EXCEPT !.title = <<"R", "a", "l", "l", "y">>]
ItemNoLink == [ItemMarkets EXCEPT !.link = Undefined]
FeedItems == {ItemMarkets, ItemShortTitle, ItemNoLink}

\* the articles the ingestion service hands on
IngestedArticles ==
    {processArticleItem(item, FeedExample, <<"business">>).value : item \in
        {i \in FeedItems : ~processArticleItem(i, FeedExample, <<"business">>).raised}}
-----------------------------------------------------------------------------
(* RAGService: the data *)

\* new Date().toISOString()
Now == <<"<now>">>

\* the articles handed to storeArticles: a complete one, one without a
\* description, one with a title only, one without any text
ArticleApple ==
    [title |-> <<"A", "p", "p", "l", "e", " ", "s", "t", "o", "c", "k", " ", "r", "i", "s", "e", "s">>,
     description |-> <<"A", "p", "p", "l", "e", " ", "r", "e", "p", "o", "r", "t", "e", "d", " ", "r", "e", "c", "o", "r", "d", " ", "s", "a", "l", "e", "s", ".">>,
     content |-> <<"S", "h", "a", "r", "e", "s", " ", "r", "o", "s", "e", ".", " ", "A", "n", "a", "l", "y", "s", "t", "s", " ", "p", "r", "a", "i", "s", "e", "d", " ", "A", "p", "p", "l", "e", " ", "s", "t", "o", "c", "k", "!">>,
     link |-> <<"https://example.com/apple">>, pubDate |-> <<"2024-01-05">>,
     source |-> <<"Reuters">>, category |-> <<"business">>,
     url |-> Undefined, wordCount |-> 0]
ArticleRain ==
    [title |-> <<"R", "a", "i", "n", " ", "e", "x", "p", "e", "c", "t", "e", "d">>,
     description |-> Undefined,
     content |-> <<"F", "o", "r", "e", "c", "a", "s", "t", "e", "r", "s", " ", "e", "x", "p", "e", "c", "t", " ", "h", "e", "a", "v", "y", " ", "r", "a", "i", "n", ".", " ", "S", "t", "a", "y", " ", "i", "n", "!">>,
     link |-> Undefined, pubDate |-> <<"2024-01-06">>,
     source |-> <<"BBC">>, category |-> Undefined,
     url |-> Undefined, wordCount |-> 0]
ArticleTitleOnly ==
    [title |-> <<"H", "e", "a", "v", "y", " ", "r", "a", "i", "n", " ", "e", "x", "p", "e", "c", "t", "e", "d", " ", "t", "o", "d", "a", "y">>,
     description |-> Undefined, content |-> Undefined,
     link |-> Undefined, pubDate |-> Undefined,
     source |-> Undefined, category |-> Undefined,
     url |-> Undefined, wordCount |-> 0]
ArticleEmpty ==
    [title |-> <<>>, description |-> <<>>, content |-> Undefined,
     link |-> <<"https://example.com/empty">>, pubDate |-> Undefined,
     source |-> Undefined, category |-> Undefined,
     url |-> Undefined, wordCount |-> 0]
Articles == {ArticleApple, ArticleRain, ArticleTitleOnly}
ArticleBatches == SeqsUpTo(Articles, MaxBatch)

\* the articles an ingestion run hands to storeArticles: those of the
\* ingestion service, and articles with little or no text
RunArticles == IngestedArticles \cup {ArticleTitleOnly, ArticleEmpty}
RunBatches == SeqsUpTo(RunArticles, MaxBatch)

\* the user's questions
QueryApple == <<"H", "o", "w", " ", "d", "i", "d", " ", "A", "p", "p", "l", "e", " ", "s", "t", "o", "c", "k", " ", "p", "e", "r", "f", "o", "r", "m", "?">>
QueryRain == <<"W", "i", "l", "l", " ", "i", "t", " ", "R", "A", "I", "N">>
Queries == {QueryApple, QueryRain}

CollectionVectorSize == 1024
\* similarity scores are in thousandths: 300 is the 0.3 of the search call
ScoreThreshold == 300
Scores == {295, 300, 910}
DefaultLimit == 5
\* the limits k retrieveRelevantPassages is called with: 5 by the chat routes
Limits == {1, DefaultLimit}

MinSentenceLength == 20
MinWordLength == 2
ExcerptLimit == 300
SummaryLimit == 200

-----------------------------------------------------------------------------
(* RAGService.storeArticles: the text and the point of one article *)

\* `${article.title || ''} ${article.description || ''} ${article.content || ''}`
textForEmbedding(article) ==
    Or(article.title, <<>>) \o <<" ">> \o Or(article.description, <<>>)
        \o <<" ">> \o Or(article.content, <<>>)

\* a payload that keeps the article's content as it came, undefined included
PayloadOfRawContent(article) ==
    [title |-> Or(article.title, <<>>),
     description |-> Or(article.description, <<>>),
     content |-> article.content,
     url |-> Or(article.link, <<>>),
     publishDate |-> Or(article.pubDate, Now),
     source |-> Or(article.source, <<"Unknown">>),
     category |-> Or(article.category, <<"General">>),
     createdAt |-> Now]

\* the payload of the point pushed for an article
PayloadOf(article) ==
    [title |-> Or(article.title, <<>>),
     description |-> Or(article.description, <<>>),
     content |-> Or(article.content, <<>>),
     url |-> Or(article.link, <<>>),
     publishDate |-> Or(article.pubDate, Now),
     source |-> Or(article.source, <<"Unknown">>),
     category |-> Or(article.category, <<"General">>),
     createdAt |-> Now]

-----------------------------------------------------------------------------
(* RAGService.extractRelevantText *)

\* the number of query words the sentence contains
Matches(sentence, queryWords) ==
    LET lowerSentence == toLowerCase(sentence)
    IN  Cardinality({j \in 1..Len(queryWords) : includes(lowerSentence, queryWords[j])})

\* a loop in which a later sentence of equal count replaces the best one
RECURSIVE BestSentenceLastWins(_, _, _)
BestSentenceLastWins(sentences, queryWords, best) ==
    IF sentences = <<>> THEN best
    ELSE LET matches == Matches(Head(sentences), queryWords)
         IN  BestSentenceLastWins(Tail(sentences), queryWords,
                                  IF matches >= best.maxMatches /\ matches > 0
                                  THEN [bestSentence |-> trim(Head(sentences)),
                                        maxMatches |-> matches]
                                  ELSE best)

\* the for loop: best is [sentence, matches] so far
RECURSIVE BestSentence(_, _, _)
BestSentence(sentences, queryWords, best) ==
    IF sentences = <<>> THEN best
    ELSE LET matches == Matches(Head(sentences), queryWords)
         IN  BestSentence(Tail(sentences), queryWords,
                          IF matches > best.maxMatches
                          THEN [bestSentence |-> trim(Head(sentences)), maxMatches |-> matches]
                          ELSE best)

\* the result, or the TypeError of content.substring on an undefined content
extractRelevantText(articlePayload, query) ==
    LET title == articlePayload.title
        description == articlePayload.description
        content == articlePayload.content
        fullText == Interpolate(title) \o <<" ">> \o Interpolate(description)
                        \o <<" ">> \o Interpolate(content)
        queryWords == SelectSeq(split(toLowerCase(query), " "),
                                LAMBDA word : Len(word) > MinWordLength)
        sentences == SelectSeq(SplitSentences(fullText),
                               LAMBDA sentence : Len(sentence) > MinSentenceLength)
        best == BestSentence(sentences, queryWords,
                             [bestSentence |-> <<>>, maxMatches |-> 0])
    IN  IF IsTruthy(best.bestSentence)
        THEN [raised |-> FALSE, value |-> best.bestSentence]
        ELSE IF IsTruthy(description)
        THEN [raised |-> FALSE, value |-> description]
        ELSE IF content = Undefined
        THEN [raised |-> TRUE, value |-> <<>>]
        ELSE [raised |-> FALSE, value |-> substring(content, 0, ExcerptLimit)]

-----------------------------------------------------------------------------
(* The vector store's search, as retrieveRelevantPassages calls it *)

\* the sequences of distinct ids of S
Orderings(S) ==
    {r \in SeqsUpTo(S, Cardinality(S)) : \A i, j \in 1..Len(r) : r[i] = r[j] => i = j}

\* the answers of search(limit, score_threshold) when the points score as
\* scoreOf: the best `limit` points among those reaching the threshold, by
\* descending score (points of equal score in any order)
SearchResults(scoreOf, limit, threshold) ==
    LET ids == DOMAIN scoreOf
        ok == {id \in ids : scoreOf[id] >= threshold}
    IN  {r \in Orderings(ok) :
            /\ Len(r) = Min(limit, Cardinality(ok))
            /\ \A i \in 1..(Len(r) - 1) : scoreOf[r[i]] >= scoreOf[r[i + 1]]
            /\ \A id \in ok :
                  (\A i \in 1..Len(r) : r[i] # id) =>
                      \A i \in 1..Len(r) : scoreOf[r[i]] >= scoreOf[id]}

\* a search call without score_threshold, as searchArticles issues it
SearchCallWithoutThreshold(scoreOf, k) == SearchResults(scoreOf, k, -1000)

\* the search call of retrieveRelevantPassages
SearchCall(scoreOf, k) == SearchResults(scoreOf, k, ScoreThreshold)

\* one mapped search result
PassageOf(payload, score, query) ==
    [title |-> payload.title,
     content |-> payload.content,
     description |-> payload.description,
     url |-> payload.url,
     source |-> payload.source,
     publishDate |-> payload.publishDate,
     similarity |-> score,
     relevantText |-> extractRelevantText(payload, query).value]

\* a map that stops after the first search result
relevantPassagesFirstOnly(pts, scoreOf, hits, query) ==
    IF \E i \in 1..Len(hits) : extractRelevantText(pts[hits[i]].payload, query).raised
    THEN <<>>
    ELSE [i \in 1..Min(Len(hits), 1) |->
            PassageOf(pts[hits[i]].payload, scoreOf[hits[i]], query)]

\* searchResult.map(...) of retrieveRelevantPassages, inside its try: a
\* TypeError in the map ends in the catch block, which returns []
relevantPassages(pts, scoreOf, hits, query) ==
    IF \E i \in 1..Len(hits) : extractRelevantText(pts[hits[i]].payload, query).raised
    THEN <<>>
    ELSE [i \in 1..Len(hits) |->
            PassageOf(pts[hits[i]].payload, scoreOf[hits[i]], query)]

-----------------------------------------------------------------------------
(* RAGService.generateAnswer, in both definitions of the class *)

ClassDefs == {1, 2}

NoContextMessage(def) ==
    IF def = 1
    THEN <<"I couldn't find any relevant news. Please try rephrasing your question.">>
    ELSE <<"I couldn't find any relevant news articles to answer your question. Could you please try rephrasing your question?">>

SorryMessage == <<"Sorry, I couldn't generate a response.">>

\* what one POST to the generation provider can end with: a body with a
\* text, a body with an empty text, a body without the field, a non-2xx
\* status, a timeout
GeneratedText == <<"<text generated by the provider>">>
GenOutcomes == {"ok", "emptytext", "nofield", "status", "timeout"}

\* response.data?.candidates?.[0]?.content?.parts?.[0]?.text
ResponseText(o) ==
    IF o = "ok" THEN GeneratedText ELSE IF o = "emptytext" THEN <<>> ELSE Undefined

\* article.relevantText || article.description || article.content.substring(0, 500)
\* throws a TypeError when it reaches an undefined content
PromptContentThrows(article) ==
    /\ ~IsTruthy(article.relevantText)
    /\ ~IsTruthy(article.description)
    /\ article.content = Undefined

\* the summary of the catch block, built from context[0]
FallbackSummary(def, query, article) ==
    LET summary == Or(article.description, substring(article.content, 0, SummaryLimit))
    IN  IF def = 1
        THEN <<"Summary of most relevant article:\n\nTitle: ">>
                 \o Interpolate(article.title) \o <<"\n">> \o summary \o <<"...">>
        ELSE <<"Here are the key points from the most relevant article about \"">>
                 \o query \o <<"\":\n\nTitle: ">> \o Interpolate(article.title)
                 \o <<"\nSummary: ">> \o summary \o <<"...">>

TroubleMessage(def) ==
    IF def = 1
    THEN <<"I'm having trouble generating a response right now. Please try again later.">>
    ELSE <<"I apologize, but I'm having trouble generating a response right now. Please try again later.">>

\* the catch block: its own TypeError leaves generateAnswer as a raised error
GenerateCatch(def, query, context, requests) ==
    IF Len(context) = 0
    THEN [raised |-> FALSE, value |-> TroubleMessage(def), requests |-> requests]
    ELSE IF ~IsTruthy(context[1].description) /\ context[1].content = Undefined
    THEN [raised |-> TRUE, value |-> <<>>, requests |-> requests]
    ELSE [raised |-> FALSE, value |-> FallbackSummary(def, query, context[1]),
          requests |-> requests]

\* what the try block does with a 2xx response
OnResponse(def, query, context, o) ==
    IF IsTruthy(ResponseText(o))
    THEN [raised |-> FALSE, value |-> ResponseText(o), requests |-> 1]
    ELSE IF def = 1
    THEN [raised |-> FALSE, value |-> SorryMessage, requests |-> 1]
    ELSE GenerateCatch(def, query, context, 1)

\* generateAnswer without the test of an empty context
generateAnswerWithoutGuard(def, query, context, o) ==
    IF \E i \in 1..Len(context) : PromptContentThrows(context[i])
    THEN GenerateCatch(def, query, context, 0)
    ELSE IF o \in {"status", "timeout"}
    THEN GenerateCatch(def, query, context, 1)
    ELSE OnResponse(def, query, context, o)

\* the result (returned text or raised error) and the number of requests
\* issued to the generation provider
generateAnswer(def, query, context, o) ==
    IF Len(context) = 0
    THEN [raised |-> FALSE, value |-> NoContextMessage(def), requests |-> 0]
    ELSE IF \E i \in 1..Len(context) : PromptContentThrows(context[i])
    THEN GenerateCatch(def, query, context, 0)
    ELSE IF o \in {"status", "timeout"}
    THEN GenerateCatch(def, query, context, 1)
    ELSE OnResponse(def, query, context, o)

-----------------------------------------------------------------------------
(* The chat routes: the sources sent with an answer *)

\* Math.round(similarity * 100) / 100, on thousandths
Round2(similarity) == ((similarity + 5) \div 10) * 10

\* sources that list only the passages of similarity above 0.5
PostSourcesAboveHalf(passages) ==
    LET strong == SelectSeq(passages, LAMBDA p : p.similarity > 500)
    IN  [i \in 1..Len(strong) |->
            [title |-> strong[i].title,
             source |-> strong[i].source,
             url |-> strong[i].url,
             similarity |-> Round2(strong[i].similarity)]]

\* POST /api/chat/:sessionId: botMessage.sources
PostSources(passages) ==
    [i \in 1..Len(passages) |->
        [title |-> passages[i].title,
         source |-> passages[i].source,
         url |-> passages[i].url,
         similarity |-> Round2(passages[i].similarity)]]

\* POST /api/chat/:sessionId/stream: the sources of bot_message_complete
StreamSources(passages) ==
    [i \in 1..Len(passages) |->
        [title |-> passages[i].title,
         source |-> passages[i].source,
         url |-> passages[i].url]]

-----------------------------------------------------------------------------
(* The state machine of the embedding service *)

TextHello == <<"H", "i", ",", " ", "t", "h", "e", "r", "e", "!">>
TextMessy == <<" ", " ", "a", " ", "&", " ", " ", "b", "\t">>
TextEmpty == <<>>
Texts == {TextHello, TextMessy, TextEmpty}
TextBatches == SeqsUpTo(Texts, MaxBatch)

\* no request message, and no stored message
NoMessage == [kind |-> "undefined", text |-> <<>>]
NoStored == [id |-> 0, type |-> "none", content |-> <<>>]
NoResult == [raised |-> FALSE, value |-> <<>>, requests |-> 0]
EmbIdle ==
    [pc |-> "idle", op |-> "none", texts |-> <<>>, outcome |-> "none", result |-> NoResult]

\* the pipeline at rest
StIdle ==
    [op |-> "none", pc |-> "idle", articles |-> <<>>, i |-> 0, pts |-> <<>>,
     submitted |-> <<>>,
     upsert |-> "none", error |-> "none", result |-> [kind |-> "none", count |-> 0]]
RqIdle ==
    [pc |-> "idle", route |-> "none", query |-> <<>>, k |-> 0, vec |-> NoVector,
     searchResult |-> <<>>, context |-> <<>>, def |-> 0, outcome |-> "none",
     answer |-> <<>>,
     raised |-> FALSE, genRequests |-> 0, sent |-> FALSE, sources |-> <<>>,
     status |-> 0]

\* no text function and no batch in progress
FnIdle ==
    [pc |-> "idle", kind |-> "none", op |-> "none", text |-> <<>>,
     payload |-> <<>>, query |-> <<>>, vectorA |-> <<>>, vectorB |-> <<>>,
     once |-> <<>>, twice |-> <<>>, result |-> [raised |-> FALSE, value |-> <<>>]]
BtIdle ==
    [pc |-> "idle", texts |-> <<>>, batchSize |-> 0, i |-> 0, allEmbeddings |-> <<>>,
     chunks |-> <<>>, delays |-> 0, raised |-> FALSE]

\* no feed, no script and no concurrent call in progress
FdIdle ==
    [pc |-> "idle", feed |-> [title |-> <<>>], maxArticles |-> 0, attempt |-> 0,
     parses |-> 0, skipped |-> 0, articles |-> <<>>, retries |-> 0,
     fetches |-> 0, yielded |-> FALSE, noItems |-> FALSE]
NoHealth == [status |-> "none", qdrant |-> FALSE, articlesCount |-> 0]
RunIdle ==
    [pc |-> "idle", kind |-> "none", clear |-> FALSE, redis |-> FALSE,
     listOk |-> FALSE, getOk |-> FALSE, count |-> 0, hc |-> NoHealth, http |-> 0,
     prompted |-> FALSE, clearCalled |-> FALSE, storeCalled |-> FALSE,
     clearedFirst |-> FALSE, exit |-> -1]
\* no session stored and no session call in progress
SmCallIdle ==
    [pc |-> "idle", op |-> "none", inner |-> "none", message |-> NoMessage,
     adding |-> NoStored, data |-> <<>>, status |-> 0, raised |-> FALSE,
     returned |-> NoStored, userMessage |-> NoStored, answer |-> <<>>,
     rag |-> FALSE, genRequests |-> 0, storeOps |-> 0, storeFailed |-> FALSE,
     wrote |-> FALSE, header |-> Undefined, adminKey |-> Undefined,
     env |-> "none", missing |-> FALSE]
SmIdle ==
    [store |-> [exists |-> FALSE, messages |-> <<>>], nextId |-> 1,
     maxChatHistory |-> 0, a |-> SmCallIdle, b |-> SmCallIdle]
CcIdle ==
    [pc |-> "idle", error |-> "none", result |-> [kind |-> "none", count |-> 0],
     initialized |-> FALSE]

IgIdle ==
    [pc |-> "idle", yields |-> <<>>, targetCount |-> 0, category |-> 0, i |-> 0,
     allArticles |-> <<>>, result |-> <<>>]

InitEmbed ==
    /\ nodeEnv \in NodeEnvs
    /\ emb \in {[EmbIdle EXCEPT !.pc = "ready", !.texts = b] : b \in TextBatches}
    /\ collExists = FALSE
    /\ points = <<>>
    /\ st = StIdle
    /\ fd = FdIdle
    /\ run = RunIdle
    /\ cc = CcIdle
    /\ sm = SmIdle
    /\ ig = IgIdle
    /\ rq = RqIdle
    /\ fn = FnIdle
    /\ bt = BtIdle

\* a caller runs generateEmbeddings(texts)
GenerateEmbeddingsCall ==
    /\ emb.pc = "ready"
    /\ \E o \in EmbedOutcomes(Len(emb.texts)) :
          LET result == generateEmbeddings(emb.texts, nodeEnv, o)
          IN  emb' = [emb EXCEPT !.pc = "done", !.op = "generateEmbeddings",
                                 !.outcome = IF result.requests = 0 THEN "none" ELSE o.kind,
                                 !.result = result]
    /\ UNCHANGED <<ig, sm, fd, run, cc, fn, bt, nodeEnv, collExists, points, st, rq>>

\* a caller runs generateQueryEmbedding(query)
GenerateQueryEmbeddingCall ==
    /\ emb.pc = "ready"
    /\ Len(emb.texts) = 1
    /\ \E o \in EmbedOutcomes(1) :
          emb' = [emb EXCEPT !.pc = "done", !.op = "generateQueryEmbedding",
                             !.outcome = o.kind,
                             !.result = generateQueryEmbedding(emb.texts[1], nodeEnv, o)]
    /\ UNCHANGED <<ig, sm, fd, run, cc, fn, bt, nodeEnv, collExists, points, st, rq>>

NextEmbed ==
    \/ GenerateEmbeddingsCall
    \/ GenerateQueryEmbeddingCall

SpecEmbed == InitEmbed /\ [][NextEmbed]_vars

-----------------------------------------------------------------------------
(* The state machine of the RAG service and the chat routes *)

Init ==
    /\ nodeEnv \in NodeEnvs
    /\ emb = EmbIdle
    /\ collExists = FALSE
    /\ points = <<>>
    /\ st = StIdle
    /\ fd = FdIdle
    /\ run = RunIdle
    /\ cc = CcIdle
    /\ sm = SmIdle
    /\ ig = IgIdle
    /\ rq = RqIdle
    /\ fn = FnIdle
    /\ bt = BtIdle

Returned(n) == [kind |-> "returned", count |-> n]
Raised == [kind |-> "raised", count |-> 0]

(* RAGService.initialize *)

InitializeStart ==
    /\ st.pc = "idle"
    /\ rq.pc = "idle"
    /\ st' = [StIdle EXCEPT !.op = "initialize", !.pc = "list"]
    /\ UNCHANGED <<ig, sm, fd, run, cc, fn, bt, nodeEnv, emb, collExists, points, rq>>

\* an initialize that creates the collection without looking for it
InitializeListWithoutCheck ==
    /\ st.pc = "list"
    /\ \E ok \in BOOLEAN :
          st' = IF ~ok THEN [st EXCEPT !.pc = "done", !.error = "getCollections",
                                      !.result = Raised]
                ELSE [st EXCEPT !.pc = "create"]
    /\ UNCHANGED <<ig, sm, fd, run, cc, fn, bt, nodeEnv, emb, collExists, points, rq>>

\* getCollections and the test of collectionExists; also the initialize
\* that clearAllArticles calls
InitializeList ==
    /\ st.pc = "list"
    /\ \E ok \in BOOLEAN :
          st' = IF ~ok THEN [st EXCEPT !.pc = "done", !.error = "getCollections",
                                      !.result = Raised]
                ELSE IF collExists THEN [st EXCEPT !.pc = "done", !.result = Returned(0)]
                ELSE [st EXCEPT !.pc = "create"]
    /\ UNCHANGED <<ig, sm, fd, run, cc, fn, bt, nodeEnv, emb, collExists, points, rq>>

\* createCollection: the store refuses to create a collection that exists
InitializeCreate ==
    /\ st.pc = "create"
    /\ \E ok \in BOOLEAN :
          IF ok /\ ~collExists
          THEN /\ collExists' = TRUE
               /\ points' = <<>>
               /\ st' = [st EXCEPT !.pc = "done", !.result = Returned(0)]
          ELSE /\ st' = [st EXCEPT !.pc = "done", !.error = "createCollection",
                                    !.result = Raised]
               /\ UNCHANGED <<collExists, points>>
    /\ UNCHANGED <<ig, sm, fd, run, cc, fn, bt, nodeEnv, emb, rq>>

(* RAGService.clearAllArticles *)

ClearAllArticlesStart ==
    /\ st.pc = "idle"
    /\ rq.pc = "idle"
    /\ st' = [StIdle EXCEPT !.op = "clearAllArticles", !.pc = "delete"]
    /\ UNCHANGED <<ig, sm, fd, run, cc, fn, bt, nodeEnv, emb, collExists, points, rq>>

\* deleteCollection, then initialize
ClearDelete ==
    /\ st.pc = "delete"
    /\ \E ok \in BOOLEAN :
          IF ok
          THEN /\ collExists' = FALSE
               /\ points' = <<>>
               /\ st' = [st EXCEPT !.pc = "list"]
          ELSE /\ st' = [st EXCEPT !.pc = "done", !.error = "deleteCollection",
                                    !.result = Raised]
               /\ UNCHANGED <<collExists, points>>
    /\ UNCHANGED <<ig, sm, fd, run, cc, fn, bt, nodeEnv, emb, rq>>

(* RAGService.storeArticles *)

StoreArticlesStart ==
    /\ st.pc = "idle"
    /\ rq.pc = "idle"
    /\ \E articles \in ArticleBatches :
          st' = [StIdle EXCEPT !.op = "storeArticles", !.articles = articles, !.i = 1,
                               !.pc = IF Len(articles) = 0 THEN "upsert" ELSE "embed"]
    /\ UNCHANGED <<ig, sm, fd, run, cc, fn, bt, nodeEnv, emb, collExists, points, rq>>

\* storeArticles(articles), called by an ingestion run
RunStoreArticlesStart ==
    /\ st.pc = "idle"
    /\ rq.pc = "idle"
    /\ \E articles \in RunBatches :
          st' = [StIdle EXCEPT !.op = "storeArticles", !.articles = articles, !.i = 1,
                               !.pc = IF Len(articles) = 0 THEN "upsert" ELSE "embed"]
    /\ UNCHANGED <<ig, sm, fd, run, cc, fn, bt, nodeEnv, emb, collExists, points, rq>>

\* a loop that leaves out the article whose embedding failed
StoreEmbedSkippingFailures ==
    /\ st.pc = "embed"
    /\ \E o \in EmbedOutcomes(1) :
          LET article == st.articles[st.i]
              embeddings == generateEmbeddings(<<textForEmbedding(article)>>, nodeEnv, o)
              submitted == IF embeddings.requests = 0 THEN <<>>
                           ELSE cleanedTextsOf(<<textForEmbedding(article)>>)
          IN  st' = IF embeddings.raised
                    THEN [st EXCEPT
                            !.submitted = @ \o submitted,
                            !.i = @ + 1,
                            !.pc = IF st.i = Len(st.articles) THEN "upsert" ELSE "embed"]
                    ELSE [st EXCEPT
                            !.submitted = @ \o submitted,
                            !.pts = Append(@, [id |-> st.i,
                                               vector |-> embeddings.value[1].embedding,
                                               payload |-> PayloadOf(article)]),
                            !.i = @ + 1,
                            !.pc = IF st.i = Len(st.articles) THEN "upsert" ELSE "embed"]
    /\ UNCHANGED <<ig, sm, fd, run, cc, fn, bt, nodeEnv, emb, collExists, points, rq>>

\* one turn of the for loop: embed article i and push its point; submitted
\* are the texts sent to the embedding provider
StoreEmbed ==
    /\ st.pc = "embed"
    /\ \E o \in EmbedOutcomes(1) :
          LET article == st.articles[st.i]
              embeddings == generateEmbeddings(<<textForEmbedding(article)>>, nodeEnv, o)
              submitted == IF embeddings.requests = 0 THEN <<>>
                           ELSE cleanedTextsOf(<<textForEmbedding(article)>>)
          IN  st' = IF embeddings.raised
                    THEN [st EXCEPT !.pc = "done", !.error = "embedding",
                                    !.submitted = @ \o submitted,
                                    !.result = Raised]
                    ELSE [st EXCEPT
                            !.submitted = @ \o submitted,
                            !.pts = Append(@, [id |-> st.i,
                                               vector |-> embeddings.value[1].embedding,
                                               payload |-> PayloadOf(article)]),
                            !.i = @ + 1,
                            !.pc = IF st.i = Len(st.articles) THEN "upsert" ELSE "embed"]
    /\ UNCHANGED <<ig, sm, fd, run, cc, fn, bt, nodeEnv, emb, collExists, points, rq>>

\* the store accepts an upsert into an existing collection of vectors of the
\* collection's size
UpsertAccepted(pts) ==
    /\ collExists
    /\ \A j \in 1..Len(pts) : pts[j].vector.dim = CollectionVectorSize

\* the collection after upsert(points): a point replaces the one of its id
Upserted(old, pts) ==
    [id \in DOMAIN old \cup {pts[j].id : j \in 1..Len(pts)} |->
        IF \E j \in 1..Len(pts) : pts[j].id = id
        THEN LET j == CHOOSE j \in 1..Len(pts) : pts[j].id = id
             IN  [vector |-> pts[j].vector, payload |-> pts[j].payload]
        ELSE old[id]]

\* the upsert of all points, and the return of points.length
StoreUpsert ==
    /\ st.pc = "upsert"
    /\ \E ok \in BOOLEAN :
          IF ok /\ UpsertAccepted(st.pts)
          THEN /\ points' = Upserted(points, st.pts)
               /\ st' = [st EXCEPT !.pc = "done", !.upsert = "ok",
                                    !.result = Returned(Len(st.pts))]
          ELSE /\ st' = [st EXCEPT !.pc = "done", !.upsert = "failed",
                                    !.error = "upsert", !.result = Raised]
               /\ UNCHANGED points
    /\ UNCHANGED <<ig, sm, fd, run, cc, fn, bt, nodeEnv, emb, collExists, rq>>

\* the caller has the result; the service is free for the next call
AdminReturn ==
    /\ st.pc = "done"
    /\ st' = StIdle
    /\ UNCHANGED <<ig, sm, fd, run, cc, fn, bt, nodeEnv, emb, collExists, points, rq>>

(* retrieveRelevantPassages and generateAnswer, called by a chat route or
   directly *)

Routes == {"post", "stream", "direct"}

RequestStart ==
    /\ rq.pc = "idle"
    /\ st.pc = "idle"
    /\ \E route \in Routes, query \in Queries, k \in Limits :
          /\ route \in {"post", "stream"} => k = DefaultLimit
          /\ rq' = [RqIdle EXCEPT !.pc = "embed", !.route = route,
                                  !.query = query, !.k = k]
    /\ UNCHANGED <<ig, sm, fd, run, cc, fn, bt, nodeEnv, emb, collExists, points, st>>

\* retrieveRelevantPassages: the query embedding; an error ends in the catch
\* block, which returns []
RetrieveEmbed ==
    /\ rq.pc = "embed"
    /\ \E o \in EmbedOutcomes(1) :
          LET queryEmbedding == generateQueryEmbedding(rq.query, nodeEnv, o)
          IN  rq' = IF queryEmbedding.raised
                    THEN [rq EXCEPT !.pc = "generate", !.context = <<>>]
                    ELSE [rq EXCEPT !.pc = "search", !.vec = queryEmbedding.value]
    /\ UNCHANGED <<ig, sm, fd, run, cc, fn, bt, nodeEnv, emb, collExists, points, st>>

\* the store answers a search on an existing collection with a vector of the
\* collection's size
SearchAccepted(vec) == collExists /\ vec.dim = CollectionVectorSize

SearchOutcomes == {"ok", "error", "nopayload"}

\* a retrieveRelevantPassages whose search error reaches the route
RetrieveSearchWithoutCatch ==
    /\ rq.pc = "search"
    /\ \E o \in SearchOutcomes :
          IF o = "ok" /\ SearchAccepted(rq.vec)
          THEN \E scoreOf \in [DOMAIN points -> Scores] :
                  \E hits \in SearchCall(scoreOf, rq.k) :
                      rq' = [rq EXCEPT
                               !.pc = "generate", !.vec = NoVector,
                               !.searchResult =
                                   [i \in 1..Len(hits) |->
                                       [id |-> hits[i], score |-> scoreOf[hits[i]]]],
                               !.context = relevantPassages(points, scoreOf, hits, rq.query)]
          ELSE rq' = [rq EXCEPT !.pc = "respond", !.vec = NoVector, !.context = <<>>,
                                !.raised = TRUE]
    /\ UNCHANGED <<ig, sm, fd, run, cc, fn, bt, nodeEnv, emb, collExists, points, st>>

\* retrieveRelevantPassages: the search and the map of its result; an error
\* of the store or a result without payload ends in the catch block
RetrieveSearch ==
    /\ rq.pc = "search"
    /\ \E o \in SearchOutcomes :
          IF o = "ok" /\ SearchAccepted(rq.vec)
          THEN \E scoreOf \in [DOMAIN points -> Scores] :
                  \E hits \in SearchCall(scoreOf, rq.k) :
                      rq' = [rq EXCEPT
                               !.pc = "generate", !.vec = NoVector,
                               !.searchResult =
                                   [i \in 1..Len(hits) |->
                                       [id |-> hits[i], score |-> scoreOf[hits[i]]]],
                               !.context = relevantPassages(points, scoreOf, hits, rq.query)]
          ELSE rq' = [rq EXCEPT !.pc = "generate", !.vec = NoVector, !.context = <<>>]
    /\ UNCHANGED <<ig, sm, fd, run, cc, fn, bt, nodeEnv, emb, collExists, points, st>>

\* generateAnswer(message, relevantPassages), under either definition
GenerateAnswer ==
    /\ rq.pc = "generate"
    /\ \E def \in ClassDefs, o \in GenOutcomes :
          LET r == generateAnswer(def, rq.query, rq.context, o)
          IN  rq' = [rq EXCEPT !.pc = "respond", !.def = def, !.outcome = o,
                               !.answer = r.value,
                               !.raised = r.raised, !.genRequests = r.requests]
    /\ UNCHANGED <<ig, sm, fd, run, cc, fn, bt, nodeEnv, emb, collExists, points, st>>

\* the end of the route. POST answers 200 with the answer and its sources
\* once the bot message is saved, and 500 from its catch block when
\* generateAnswer or the session store raised. The stream route has sent its
\* 200 headers before, and sends the answer and its sources before it saves
\* the bot message.
Respond ==
    /\ rq.pc = "respond"
    /\ \E sessionOk \in BOOLEAN :
          rq' = IF rq.route = "direct" THEN [rq EXCEPT !.pc = "done"]
                ELSE IF rq.route = "post"
                THEN IF rq.raised \/ ~sessionOk
                     THEN [rq EXCEPT !.pc = "done", !.status = 500]
                     ELSE [rq EXCEPT !.pc = "done", !.status = 200, !.sent = TRUE,
                                     !.sources = PostSources(rq.context)]
                ELSE IF rq.raised
                     THEN [rq EXCEPT !.pc = "done", !.status = 200]
                     ELSE [rq EXCEPT !.pc = "done", !.status = 200, !.sent = TRUE,
                                     !.sources = StreamSources(rq.context)]
    /\ UNCHANGED <<ig, sm, fd, run, cc, fn, bt, nodeEnv, emb, collExists, points, st>>

RequestEnd ==
    /\ rq.pc = "done"
    /\ rq' = RqIdle
    /\ UNCHANGED <<ig, sm, fd, run, cc, fn, bt, nodeEnv, emb, collExists, points, st>>

Next ==
    \/ InitializeStart
    \/ InitializeList
    \/ InitializeCreate
    \/ ClearAllArticlesStart
    \/ ClearDelete
    \/ StoreArticlesStart
    \/ StoreEmbed
    \/ StoreUpsert
    \/ AdminReturn
    \/ RequestStart
    \/ RetrieveEmbed
    \/ RetrieveSearch
    \/ GenerateAnswer
    \/ Respond
    \/ RequestEnd

Spec == Init /\ [][Next]_vars

-----------------------------------------------------------------------------
(* The state machine of an ingestion run: initialize, clearAllArticles and
   storeArticles on the articles of the ingestion service *)

NextRun ==
    \/ InitializeStart
    \/ InitializeList
    \/ InitializeCreate
    \/ ClearAllArticlesStart
    \/ ClearDelete
    \/ RunStoreArticlesStart
    \/ StoreEmbed
    \/ StoreUpsert
    \/ AdminReturn

SpecRun == Init /\ [][NextRun]_vars

-----------------------------------------------------------------------------
(* The text functions, each called once on an argument *)

\* longest text of the alphabet handed to cleanText
MaxTextLen == 5

\* the texts handed to the two cleanText: every text over a small alphabet,
\* and some feed texts
TextAlphabet == {"a", " ", "&", ";", "<", ">"}
TextMarkup == <<"<", "p", ">", "T", "o", "m", " ", "&", "a", "m", "p", ";", " ", "J", "e", "r", "r", "y", " ", "&", "#", "3", "8", ";", " ", "c", "o", "<", "/", "p", ">">>
TextNestedEntity == <<"x", " ", "&", "&", "a", "m", "p", ";", "a", "m", "p", ";", " ", "y">>
TextSplitEntity == <<"&", "#", "&", "l", "t", ";", "3", "8", ";">>
CleanInputs ==
    SeqsUpTo(TextAlphabet, MaxTextLen)
        \cup {TextHello, TextMessy, TextMarkup, TextNestedEntity, TextSplitEntity}

\* the payloads and queries handed to extractRelevantText: the payloads
\* storeArticles writes, and one whose first sentence has 20 characters
PayloadStorm ==
    [title |-> <<"S", "t", "o", "r", "m", " ", "w", "a", "r", "n", "i", "n", "g", " ", "i", "s", "s", "u", "e", "d", ".">>,
     description |-> <<"S", "t", "a", "y", " ", "i", "n", "!">>,
     content |-> <<"G", "o", " ", "h", "o", "m", "e", ".">>,
     url |-> <<>>, publishDate |-> Now, source |-> <<"Unknown">>,
     category |-> <<"General">>, createdAt |-> Now]
QueryStorm == <<"A", "n", "y", " ", "s", "t", "o", "r", "m", " ", "c", "o", "m", "i", "n", "g">>
ExtractPayloads == {PayloadOf(a) : a \in Articles} \cup {PayloadStorm}
ExtractQueries == Queries \cup {QueryStorm}

\* longest vector handed to calculateCosineSimilarity, and its components
MaxVecLen == 2
Components == {-1, 0, 1}
CosineVectors == SeqsUpTo(Components, MaxVecLen)

\* the sum of a[i] * b[i] over the first n indices
RECURSIVE SumProducts(_, _, _)
SumProducts(a, b, n) ==
    IF n = 0 THEN 0 ELSE SumProducts(a, b, n - 1) + a[n] * b[n]

\* a cosine similarity that looks at the norms before the lengths
calculateCosineSimilarityNormsFirst(vectorA, vectorB) ==
    LET normA == SumProducts(vectorA, vectorA, Len(vectorA))
        normB == SumProducts(vectorB, vectorB, Len(vectorB))
    IN  IF normA = 0 \/ normB = 0
        THEN [raised |-> FALSE, value |-> <<0, 1>>]
        ELSE IF Len(vectorA) # Len(vectorB)
        THEN [raised |-> TRUE, value |-> <<>>]
        ELSE [raised |-> FALSE,
              value |-> <<SumProducts(vectorA, vectorB, Len(vectorA)), normA * normB>>]

\* EmbeddingService.calculateCosineSimilarity; the value <<d, n>> stands for
\* the number d / sqrt(n), and <<0, 1>> for the 0 of the zero-norm branch
calculateCosineSimilarity(vectorA, vectorB) ==
    IF Len(vectorA) # Len(vectorB)
    THEN [raised |-> TRUE, value |-> <<>>]
    ELSE LET dotProduct == SumProducts(vectorA, vectorB, Len(vectorA))
             normA == SumProducts(vectorA, vectorA, Len(vectorA))
             normB == SumProducts(vectorB, vectorB, Len(vectorA))
         IN  IF normA = 0 \/ normB = 0
             THEN [raised |-> FALSE, value |-> <<0, 1>>]
             ELSE [raised |-> FALSE, value |-> <<dotProduct, normA * normB>>]

InitText ==
    /\ nodeEnv = "production"
    /\ emb = EmbIdle
    /\ collExists = FALSE
    /\ points = <<>>
    /\ st = StIdle
    /\ fd = FdIdle
    /\ run = RunIdle
    /\ cc = CcIdle
    /\ sm = SmIdle
    /\ ig = IgIdle
    /\ rq = RqIdle
    /\ bt = BtIdle
    /\ fn \in {[FnIdle EXCEPT !.pc = "ready", !.kind = "text", !.text = t] :
                  t \in CleanInputs}
             \cup {[FnIdle EXCEPT !.pc = "ready", !.kind = "extract",
                                  !.payload = p, !.query = q] :
                      p \in ExtractPayloads, q \in ExtractQueries}
             \cup {[FnIdle EXCEPT !.pc = "ready", !.kind = "vectors",
                                  !.vectorA = a, !.vectorB = b] :
                      a \in CosineVectors, b \in CosineVectors}

\* EmbeddingService.cleanText(text), and cleanText of its result
CleanTextCall ==
    /\ fn.pc = "ready"
    /\ fn.kind = "text"
    /\ fn' = [fn EXCEPT !.pc = "done", !.op = "cleanText",
                        !.once = cleanText(fn.text),
                        !.twice = cleanText(cleanText(fn.text))]
    /\ UNCHANGED <<ig, sm, fd, run, cc, nodeEnv, emb, collExists, points, st, rq, bt>>

\* NewsIngestionService.cleanText(text), and cleanText of its result
IngestCleanTextCall ==
    /\ fn.pc = "ready"
    /\ fn.kind = "text"
    /\ fn' = [fn EXCEPT !.pc = "done", !.op = "ingestCleanText",
                        !.once = ingestCleanText(fn.text),
                        !.twice = ingestCleanText(ingestCleanText(fn.text))]
    /\ UNCHANGED <<ig, sm, fd, run, cc, nodeEnv, emb, collExists, points, st, rq, bt>>

\* RAGService.extractRelevantText(payload, query)
ExtractRelevantTextCall ==
    /\ fn.pc = "ready"
    /\ fn.kind = "extract"
    /\ fn' = [fn EXCEPT !.pc = "done", !.op = "extractRelevantText",
                        !.result = extractRelevantText(fn.payload, fn.query)]
    /\ UNCHANGED <<ig, sm, fd, run, cc, nodeEnv, emb, collExists, points, st, rq, bt>>

\* EmbeddingService.calculateCosineSimilarity(vectorA, vectorB)
CosineSimilarityCall ==
    /\ fn.pc = "ready"
    /\ fn.kind = "vectors"
    /\ fn' = [fn EXCEPT !.pc = "done", !.op = "calculateCosineSimilarity",
                        !.result = calculateCosineSimilarity(fn.vectorA, fn.vectorB)]
    /\ UNCHANGED <<ig, sm, fd, run, cc, nodeEnv, emb, collExists, points, st, rq, bt>>

NextText ==
    \/ CleanTextCall
    \/ IngestCleanTextCall
    \/ ExtractRelevantTextCall
    \/ CosineSimilarityCall

SpecText == InitText /\ [][NextText]_vars

-----------------------------------------------------------------------------
(* EmbeddingService.batchGenerateEmbeddings *)

\* longest list of texts handed to batchGenerateEmbeddings, and largest
\* batchSize
MaxTexts == 3

BatchLists == SeqsUpTo(Texts, MaxTexts)
BatchSizes == 1..MaxTexts

\* Array.prototype.slice(from, to), both 0-based, to exclusive
slice(a, from, to) == SubSeq(a, from + 1, Min(to, Len(a)))

\* a loop whose first failing batch ends the call with the error
AfterBatchWithoutCatch(b, batch, r) ==
    IF r.raised
    THEN [b EXCEPT !.pc = "done", !.raised = TRUE,
                   !.chunks = Append(@, [from |-> b.i, batch |-> batch,
                                         ok |-> FALSE, embeddings |-> <<>>])]
    ELSE [b EXCEPT !.allEmbeddings = @ \o r.value,
                   !.chunks = Append(@, [from |-> b.i, batch |-> batch,
                                         ok |-> TRUE, embeddings |-> r.value]),
                   !.delays = IF b.i + b.batchSize < Len(b.texts) THEN @ + 1 ELSE @,
                   !.i = @ + b.batchSize]

\* the try/catch of one turn of the loop, r being the result of
\* generateEmbeddings(batch), and the step i += batchSize
AfterBatch(b, batch, r) ==
    IF r.raised
    THEN [b EXCEPT !.chunks = Append(@, [from |-> b.i, batch |-> batch,
                                         ok |-> FALSE, embeddings |-> <<>>]),
                   !.i = @ + b.batchSize]
    ELSE [b EXCEPT !.allEmbeddings = @ \o r.value,
                   !.chunks = Append(@, [from |-> b.i, batch |-> batch,
                                         ok |-> TRUE, embeddings |-> r.value]),
                   !.delays = IF b.i + b.batchSize < Len(b.texts) THEN @ + 1 ELSE @,
                   !.i = @ + b.batchSize]

InitBatch ==
    /\ nodeEnv \in NodeEnvs
    /\ emb = EmbIdle
    /\ collExists = FALSE
    /\ points = <<>>
    /\ st = StIdle
    /\ fd = FdIdle
    /\ run = RunIdle
    /\ cc = CcIdle
    /\ sm = SmIdle
    /\ ig = IgIdle
    /\ rq = RqIdle
    /\ fn = FnIdle
    /\ bt \in {[BtIdle EXCEPT !.pc = "loop", !.texts = texts, !.batchSize = batchSize] :
                  texts \in BatchLists, batchSize \in BatchSizes}

\* one turn of the for loop
BatchTurn ==
    /\ bt.pc = "loop"
    /\ bt.i < Len(bt.texts)
    /\ LET batch == slice(bt.texts, bt.i, bt.i + bt.batchSize)
       IN  \E o \in EmbedOutcomes(Len(batch)) :
               bt' = AfterBatch(bt, batch, generateEmbeddings(batch, nodeEnv, o))
    /\ UNCHANGED <<ig, sm, fd, run, cc, nodeEnv, emb, collExists, points, st, rq, fn>>

\* the end of the loop: return allEmbeddings
BatchReturn ==
    /\ bt.pc = "loop"
    /\ bt.i >= Len(bt.texts)
    /\ bt' = [bt EXCEPT !.pc = "done"]
    /\ UNCHANGED <<ig, sm, fd, run, cc, nodeEnv, emb, collExists, points, st, rq, fn>>

NextBatch ==
    \/ BatchTurn
    \/ BatchReturn

SpecBatch == InitBatch /\ [][NextBatch]_vars

-----------------------------------------------------------------------------
(* NewsIngestionService.processSingleFeed *)

\* most items of a feed, and largest maxArticles
MaxItems == 2

FeedRetries == 3

\* the feeds and their items: a feed whose title is only markup, an item
\* whose text is too short
FeedMarkupTitle == [title |-> <<"<", "b", ">", "<", "/", "b", ">">>]
Feeds == {FeedExample, FeedMarkupTitle}
ItemShortText == [ItemMarkets EXCEPT !.contentSnippet = <<"S", "t", "o", "c", "k", "s", " ", "r", "o", "s", "e", ".">>]
ItemLists == SeqsUpTo(FeedItems \cup {ItemShortText}, MaxItems)
FeedCategory == <<"business">>

\* the inner loop that pushes every article processArticleItem built, valid
\* or not
ProcessedItemsUnchecked(items, feed, maxArticles) ==
    [i \in 1..Min(Len(items), maxArticles) |->
        processArticleItem(items[i], feed, FeedCategory).value]

\* the inner loop of one attempt: the articles of the first itemsToProcess
\* items that processArticleItem built and isValidArticle accepts
ProcessedItems(items, feed, maxArticles) ==
    LET itemsToProcess == Min(Len(items), maxArticles)
        processed == [i \in 1..itemsToProcess |->
                         processArticleItem(items[i], feed, FeedCategory)]
        pushed == SelectSeq(processed,
                            LAMBDA r : ~r.raised /\ isValidArticle(r.value))
    IN  [i \in 1..Len(pushed) |-> pushed[i].value]

InitFeed ==
    /\ nodeEnv = "production"
    /\ emb = EmbIdle
    /\ collExists = FALSE
    /\ points = <<>>
    /\ st = StIdle
    /\ rq = RqIdle
    /\ fn = FnIdle
    /\ bt = BtIdle
    /\ run = RunIdle
    /\ cc = CcIdle
    /\ sm = SmIdle
    /\ ig = IgIdle
    /\ fd \in {[FdIdle EXCEPT !.pc = "attempt", !.feed = feed,
                               !.maxArticles = maxArticles, !.attempt = 1,
                               !.retries = retries] :
                  feed \in Feeds, maxArticles \in 1..MaxItems,
                  retries \in 1..FeedRetries}

\* an attempt that treats a feed without items as one without valid articles
FeedAttemptRetryingEmpty ==
    /\ fd.pc = "attempt"
    /\ fd.attempt <= fd.retries
    /\ \E parsed \in BOOLEAN, items \in ItemLists :
          fd' = IF ~parsed
                THEN [fd EXCEPT !.attempt = @ + 1, !.fetches = @ + 1]
                ELSE LET articles == ProcessedItems(items, fd.feed, fd.maxArticles)
                         tried == Min(Len(items), fd.maxArticles)
                     IN  IF Len(articles) > 0
                         THEN [fd EXCEPT !.pc = "done", !.parses = @ + 1,
                                         !.fetches = @ + 1, !.yielded = TRUE,
                                         !.skipped = tried - Len(articles),
                                         !.articles = articles]
                         ELSE [fd EXCEPT !.attempt = @ + 1, !.parses = @ + 1,
                                         !.fetches = @ + 1,
                                         !.noItems = @ \/ Len(items) = 0,
                                         !.skipped = tried]
    /\ UNCHANGED <<ig, sm, run, cc, nodeEnv, emb, collExists, points, st, rq, fn, bt>>

\* one attempt of processSingleFeed: parseURL raises or answers a feed; a
\* feed without items ends the call with [], valid articles end it with
\* them, anything else moves to the next attempt
FeedAttempt ==
    /\ fd.pc = "attempt"
    /\ fd.attempt <= fd.retries
    /\ \E parsed \in BOOLEAN, items \in ItemLists :
          fd' = IF ~parsed
                THEN [fd EXCEPT !.attempt = @ + 1, !.fetches = @ + 1]
                ELSE LET articles == ProcessedItems(items, fd.feed, fd.maxArticles)
                         tried == Min(Len(items), fd.maxArticles)
                     IN  IF Len(items) = 0
                         THEN [fd EXCEPT !.pc = "done", !.parses = @ + 1,
                                         !.fetches = @ + 1, !.noItems = TRUE]
                         ELSE IF Len(articles) > 0
                         THEN [fd EXCEPT !.pc = "done", !.parses = @ + 1,
                                         !.fetches = @ + 1, !.yielded = TRUE,
                                         !.skipped = tried - Len(articles),
                                         !.articles = articles]
                         ELSE [fd EXCEPT !.attempt = @ + 1, !.parses = @ + 1,
                                         !.fetches = @ + 1,
                                         !.skipped = tried]
    /\ UNCHANGED <<ig, sm, run, cc, nodeEnv, emb, collExists, points, st, rq, fn, bt>>

\* the end of the loop of attempts: return []
FeedGiveUp ==
    /\ fd.pc = "attempt"
    /\ fd.attempt > fd.retries
    /\ fd' = [fd EXCEPT !.pc = "done"]
    /\ UNCHANGED <<ig, sm, run, cc, nodeEnv, emb, collExists, points, st, rq, fn, bt>>

NextFeed ==
    \/ FeedAttempt
    \/ FeedGiveUp

SpecFeed == InitFeed /\ [][NextFeed]_vars

\* the event loop runs every pending step of the call
SpecFeedFair == SpecFeed /\ WF_vars(NextFeed)
-----------------------------------------------------------------------------
(* The state machine of the callers of the RAG service: the health endpoint
   and the ingestion script, scripts/ingestNews.js *)

\* getCollection answers when the store is reached and the collection exists
GetCollectionOk(ok) == ok /\ collExists

\* getCollectionStats: totalArticles of the collection, or an object holding
\* only the error when getCollection fails
getCollectionStats(ok) ==
    IF GetCollectionOk(ok)
    THEN [error |-> FALSE, totalArticles |-> Cardinality(DOMAIN points)]
    ELSE [error |-> TRUE, totalArticles |-> 0]

\* healthCheck: neither isConnected nor getCollectionStats raises, so the
\* try block always returns
healthCheck(isQdrantConnected, stats) ==
    [status |-> "healthy", qdrant |-> isQdrantConnected,
     articlesCount |-> stats.totalArticles]

\* the status of /api/health: ragConnected is the object healthCheck
\* returned, which is truthy
HealthStatus(redisConnected, hc) ==
    LET ragConnected == hc.status # "none"
        isHealthy == redisConnected /\ ragConnected
    IN  IF isHealthy THEN 200 ELSE 503

\* GET /api/health
HealthStart ==
    /\ run.pc = "idle"
    /\ st.pc = "idle"
    /\ \E redisConnected \in BOOLEAN :
          run' = [RunIdle EXCEPT !.kind = "health", !.redis = redisConnected,
                                 !.pc = "isConnected"]
    /\ UNCHANGED <<ig, sm, fd, cc, nodeEnv, emb, collExists, points, st, rq, fn, bt>>

\* isConnected: getCollections answers or fails
HealthIsConnected ==
    /\ run.pc = "isConnected"
    /\ \E ok \in BOOLEAN : run' = [run EXCEPT !.listOk = ok, !.pc = "stats"]
    /\ UNCHANGED <<ig, sm, fd, cc, nodeEnv, emb, collExists, points, st, rq, fn, bt>>

\* getCollectionStats and the object healthCheck returns
HealthStats ==
    /\ run.pc = "stats"
    /\ run.kind = "health"
    /\ \E ok \in BOOLEAN :
          run' = [run EXCEPT !.getOk = GetCollectionOk(ok),
                             !.hc = healthCheck(run.listOk, getCollectionStats(ok)),
                             !.pc = "respond"]
    /\ UNCHANGED <<ig, sm, fd, cc, nodeEnv, emb, collExists, points, st, rq, fn, bt>>

HealthRespond ==
    /\ run.pc = "respond"
    /\ run' = [run EXCEPT !.http = HealthStatus(run.redis, run.hc), !.pc = "done"]
    /\ UNCHANGED <<ig, sm, fd, cc, nodeEnv, emb, collExists, points, st, rq, fn, bt>>

RunEnd ==
    /\ run.pc = "done"
    /\ run' = RunIdle
    /\ UNCHANGED <<ig, sm, fd, cc, nodeEnv, emb, collExists, points, st, rq, fn, bt>>

\* main: --clear only sets FORCE_CLEAR; runComprehensiveIngestion starts with
\* ragService.initialize()
ScriptStart ==
    /\ run.pc = "idle"
    /\ st.pc = "idle"
    /\ \E clear \in BOOLEAN :
          run' = [RunIdle EXCEPT !.kind = "script", !.clear = clear,
                                 !.pc = "initialize"]
    /\ st' = [StIdle EXCEPT !.op = "initialize", !.pc = "list"]
    /\ UNCHANGED <<ig, sm, fd, cc, nodeEnv, emb, collExists, points, rq, fn, bt>>

\* initialize is over: an error ends the script with exit code 1
ScriptInitialized ==
    /\ run.pc = "initialize"
    /\ st.pc = "done"
    /\ run' = IF st.result.kind = "raised"
              THEN [run EXCEPT !.pc = "done", !.exit = 1]
              ELSE [run EXCEPT !.pc = "stats"]
    /\ st' = StIdle
    /\ UNCHANGED <<ig, sm, fd, cc, nodeEnv, emb, collExists, points, rq, fn, bt>>

\* the current count; a collection that holds articles brings the question
ScriptStats ==
    /\ run.pc = "stats"
    /\ run.kind = "script"
    /\ \E ok \in BOOLEAN :
          LET currentCount == getCollectionStats(ok).totalArticles
          IN  run' = IF currentCount > 0
                     THEN [run EXCEPT !.getOk = GetCollectionOk(ok), !.count = currentCount,
                                      !.prompted = TRUE, !.pc = "question"]
                     ELSE [run EXCEPT !.getOk = GetCollectionOk(ok), !.count = currentCount,
                                      !.pc = "fetch"]
    /\ UNCHANGED <<ig, sm, fd, cc, nodeEnv, emb, collExists, points, st, rq, fn, bt>>

\* the user's answer: clearAllArticles on an answer starting with y
ScriptAnswer ==
    /\ run.pc = "question"
    /\ \E shouldClear \in BOOLEAN :
          IF shouldClear
          THEN /\ run' = [run EXCEPT !.clearCalled = TRUE, !.pc = "clear"]
               /\ st' = [StIdle EXCEPT !.op = "clearAllArticles", !.pc = "delete"]
          ELSE /\ run' = [run EXCEPT !.pc = "fetch"]
               /\ UNCHANGED st
    /\ UNCHANGED <<ig, sm, fd, cc, nodeEnv, emb, collExists, points, rq, fn, bt>>

\* clearAllArticles is over; its error is caught by the status check
ScriptCleared ==
    /\ run.pc = "clear"
    /\ st.pc = "done"
    /\ run' = [run EXCEPT !.pc = "fetch"]
    /\ st' = StIdle
    /\ UNCHANGED <<ig, sm, fd, cc, nodeEnv, emb, collExists, points, rq, fn, bt>>

\* ingestWithStrategy, then storeArticles; no article ends the script
ScriptFetch ==
    /\ run.pc = "fetch"
    /\ \E articles \in RunBatches :
          IF Len(articles) = 0
          THEN /\ run' = [run EXCEPT !.pc = "done", !.exit = 1]
               /\ UNCHANGED st
          ELSE /\ run' = [run EXCEPT !.storeCalled = TRUE,
                                     !.clearedFirst = run.clearCalled,
                                     !.pc = "store"]
               /\ st' = [StIdle EXCEPT !.op = "storeArticles", !.articles = articles,
                                       !.i = 1, !.pc = "embed"]
    /\ UNCHANGED <<ig, sm, fd, cc, nodeEnv, emb, collExists, points, rq, fn, bt>>

\* storeArticles is over; the statistics and the test queries that follow
\* only read
ScriptStored ==
    /\ run.pc = "store"
    /\ st.pc = "done"
    /\ run' = [run EXCEPT !.pc = "done",
                          !.exit = IF st.result.kind = "raised" THEN 1 ELSE 0]
    /\ st' = StIdle
    /\ UNCHANGED <<ig, sm, fd, cc, nodeEnv, emb, collExists, points, rq, fn, bt>>

NextOps ==
    \/ HealthStart
    \/ HealthIsConnected
    \/ HealthStats
    \/ HealthRespond
    \/ RunEnd
    \/ ScriptStart
    \/ ScriptInitialized
    \/ ScriptStats
    \/ ScriptAnswer
    \/ ScriptCleared
    \/ ScriptFetch
    \/ ScriptStored
    \/ InitializeList
    \/ InitializeCreate
    \/ ClearDelete
    \/ StoreEmbed
    \/ StoreUpsert

SpecOps == Init /\ [][NextOps]_vars

-----------------------------------------------------------------------------
(* The state machine of concurrent callers of one store: a call of initialize,
   clearAllArticles or storeArticles (st), a second call of initialize (cc)
   and a chat request (rq), their awaits interleaved; the second initialize
   and the chat request each run against an initialize or a clearAllArticles
   of the first caller, not against each other nor against storeArticles.
   cc.initialized records that a call of initialize has returned
   without error. *)

\* the lists of articles one ingestion stores here
ConcBatches == {<<a>> : a \in Articles}

ConcInitializeStart ==
    /\ st.pc = "idle"
    /\ st' = [StIdle EXCEPT !.op = "initialize", !.pc = "list"]
    /\ UNCHANGED <<ig, sm, fd, run, cc, fn, bt, nodeEnv, emb, collExists, points, rq>>

ConcClearAllArticlesStart ==
    /\ st.pc = "idle"
    /\ st' = [StIdle EXCEPT !.op = "clearAllArticles", !.pc = "delete"]
    /\ UNCHANGED <<ig, sm, fd, run, cc, fn, bt, nodeEnv, emb, collExists, points, rq>>

ConcStoreArticlesStart ==
    /\ st.pc = "idle"
    /\ rq.pc = "idle"
    /\ cc.pc = "idle"
    /\ \E articles \in ConcBatches :
          st' = [StIdle EXCEPT !.op = "storeArticles", !.articles = articles, !.i = 1,
                               !.pc = "embed"]
    /\ UNCHANGED <<ig, sm, fd, run, cc, fn, bt, nodeEnv, emb, collExists, points, rq>>

\* the caller has the result of its call
ConcAdminReturn ==
    /\ st.pc = "done"
    /\ st' = StIdle
    /\ cc' = [cc EXCEPT !.initialized =
                  @ \/ (st.op = "initialize" /\ st.result.kind = "returned")]
    /\ UNCHANGED <<ig, sm, fd, run, fn, bt, nodeEnv, emb, collExists, points, rq>>

\* the second call of initialize
SecondInitializeStart ==
    /\ cc.pc = "idle"
    /\ rq.pc = "idle"
    /\ st.op # "storeArticles"
    /\ cc' = [cc EXCEPT !.pc = "list"]
    /\ UNCHANGED <<ig, sm, fd, run, fn, bt, nodeEnv, emb, collExists, points, st, rq>>

\* getCollections and the test of collectionExists
SecondInitializeList ==
    /\ cc.pc = "list"
    /\ \E ok \in BOOLEAN :
          cc' = IF ~ok THEN [cc EXCEPT !.pc = "done", !.error = "getCollections",
                                      !.result = Raised]
                ELSE IF collExists THEN [cc EXCEPT !.pc = "done", !.result = Returned(0)]
                ELSE [cc EXCEPT !.pc = "create"]
    /\ UNCHANGED <<ig, sm, fd, run, fn, bt, nodeEnv, emb, collExists, points, st, rq>>

\* createCollection: the store refuses to create a collection that exists
SecondInitializeCreate ==
    /\ cc.pc = "create"
    /\ \E ok \in BOOLEAN :
          IF ok /\ ~collExists
          THEN /\ collExists' = TRUE
               /\ points' = <<>>
               /\ cc' = [cc EXCEPT !.pc = "done", !.result = Returned(0)]
          ELSE /\ cc' = [cc EXCEPT !.pc = "done",
                                    !.error = IF collExists THEN "collectionExists"
                                              ELSE "createCollection",
                                    !.result = Raised]
               /\ UNCHANGED <<collExists, points>>
    /\ UNCHANGED <<ig, sm, fd, run, fn, bt, nodeEnv, emb, st, rq>>

SecondInitializeReturn ==
    /\ cc.pc = "done"
    /\ cc' = [CcIdle EXCEPT !.initialized =
                  cc.initialized \/ cc.result.kind = "returned"]
    /\ UNCHANGED <<ig, sm, fd, run, fn, bt, nodeEnv, emb, collExists, points, st, rq>>

\* a chat request, or a direct call of retrieveRelevantPassages
ConcRequestStart ==
    /\ rq.pc = "idle"
    /\ cc.pc = "idle"
    /\ st.op # "storeArticles"
    /\ \E route \in Routes, query \in Queries, k \in Limits :
          /\ route \in {"post", "stream"} => k = DefaultLimit
          /\ rq' = [RqIdle EXCEPT !.pc = "embed", !.route = route,
                                  !.query = query, !.k = k]
    /\ UNCHANGED <<ig, sm, fd, run, cc, fn, bt, nodeEnv, emb, collExists, points, st>>

NextConc ==
    \/ ConcInitializeStart
    \/ ConcClearAllArticlesStart
    \/ ConcStoreArticlesStart
    \/ ConcAdminReturn
    \/ InitializeList
    \/ InitializeCreate
    \/ ClearDelete
    \/ StoreEmbed
    \/ StoreUpsert
    \/ SecondInitializeStart
    \/ SecondInitializeList
    \/ SecondInitializeCreate
    \/ SecondInitializeReturn
    \/ ConcRequestStart
    \/ RetrieveEmbed
    \/ RetrieveSearch
    \/ GenerateAnswer
    \/ Respond
    \/ RequestEnd

SpecConc == Init /\ [][NextConc]_vars

-----------------------------------------------------------------------------
(* The state machine of the session store: the key session:<id> of one
   session id in Redis (sm.store), the calls of SessionManager and the routes
   of one caller (sm.a), and the addMessage calls of a second caller (sm.b),
   every await of the store being one step *)

\* most messages pushed to the session
MaxAdds == 3

DefaultMaxMessages == 50
MaxMessageLength == 1000

\* parseInt(process.env.MAX_CHAT_HISTORY), 0 standing for NaN and for 0
MaxChatHistories == {0, 2}
\* process.env.ADMIN_KEY and the admin-key header of a request
AdminKeys == {Undefined, <<"k1">>}
Headers == {Undefined, <<"k1">>, <<"k2">>}
Callers == {"a", "b"}

\* parseInt(process.env.MAX_CHAT_HISTORY) || 50
maxMessagesOf(parsed) == IF parsed = 0 THEN DefaultMaxMessages ELSE parsed

\* a.slice(-n) for a positive n
sliceLast(a, n) == IF Len(a) <= n THEN a ELSE SubSeq(a, Len(a) - n + 1, Len(a))

\* a history that keeps its first maxMessages messages
PushedAndTrimmedKeepingFirst(messages, message, id, maxMessages) ==
    LET pushed == Append(messages, [id |-> id, type |-> message.type,
                                    content |-> message.content])
    IN  IF Len(pushed) > maxMessages THEN SubSeq(pushed, 1, maxMessages) ELSE pushed

\* messages.push({...message, id}) and the slice(-maxMessages) of addMessage
PushedAndTrimmed(messages, message, id, maxMessages) ==
    LET pushed == Append(messages, [id |-> id, type |-> message.type,
                                    content |-> message.content])
    IN  IF Len(pushed) > maxMessages THEN sliceLast(pushed, maxMessages) ELSE pushed

\* the bodies of POST /api/chat/:sessionId
MessageValid == [kind |-> "string", text |-> <<" ", "A", "n", "y", " ", "n", "e", "w", "s", "?", " ">>]
MessageBlank == [kind |-> "string", text |-> <<" ", " ", " ">>]
MessageEmpty == [kind |-> "string", text |-> <<>>]
MessageNumber == [kind |-> "number", text |-> <<"7">>]
MessageLong == [kind |-> "string", text |-> [i \in 1..(MaxMessageLength + 1) |-> "x"]]
PostMessages ==
    {NoMessage, MessageValid, MessageBlank, MessageEmpty, MessageNumber, MessageLong}

\* !message || typeof message !== 'string' || message.trim().length === 0,
\* and message.length > 1000
MessageRejected(message) ==
    \/ message.kind # "string"
    \/ Len(message.text) = 0
    \/ Len(trim(message.text)) = 0
    \/ Len(message.text) > MaxMessageLength

\* what retrieveRelevantPassages hands to the route: nothing, or the passage
\* of a stored article
SessionContexts(query) ==
    {<<>>, <<PassageOf(PayloadOf(ArticleApple), 910, query)>>}

\* the class the routes get from require: the definition that module.exports
\* names last
RouteClassDef == 2

DirectMessage == [id |-> 0, type |-> "user", content |-> <<"h", "i">>]

InitSession ==
    /\ nodeEnv = "production"
    /\ emb = EmbIdle
    /\ collExists = FALSE
    /\ points = <<>>
    /\ st = StIdle
    /\ fd = FdIdle
    /\ run = RunIdle
    /\ cc = CcIdle
    /\ rq = RqIdle
    /\ fn = FnIdle
    /\ bt = BtIdle
    /\ sm \in {[SmIdle EXCEPT !.maxChatHistory = h] : h \in MaxChatHistories}
    /\ ig = IgIdle

\* a call that raised: the routes answer 500 from their catch block
CallRaised(call, failed) ==
    [call EXCEPT !.pc = "done", !.inner = "none", !.raised = TRUE,
                 !.storeFailed = @ \/ failed,
                 !.status = IF call.op = "addMessage" THEN 0 ELSE 500]

\* addMessage returned the stored message: the route goes on
AddReturned(call, stored) ==
    IF call.op = "addMessage"
    THEN [call EXCEPT !.pc = "done", !.inner = "none", !.returned = stored,
                      !.wrote = TRUE]
    ELSE IF call.pc = "addUser"
    THEN [call EXCEPT !.pc = "rag", !.inner = "none", !.userMessage = stored,
                      !.wrote = TRUE]
    ELSE [call EXCEPT !.pc = "done", !.inner = "none", !.returned = stored,
                      !.status = 200]

\* sessionManager.addMessage(sessionId, message), called directly
AddMessageStart(c) ==
    /\ sm[c].pc = "idle"
    /\ sm' = [sm EXCEPT ![c] = [SmCallIdle EXCEPT !.op = "addMessage", !.pc = "add",
                                                   !.inner = "get",
                                                   !.adding = DirectMessage]]
    /\ UNCHANGED <<ig, fd, run, cc, nodeEnv, emb, collExists, points, st, rq, fn, bt>>

\* addMessage: getSession, which gives null for a missing session and for
\* a failed read
AddGet(c) ==
    /\ sm[c].inner = "get"
    /\ \E ok \in BOOLEAN :
          sm' = [sm EXCEPT ![c] =
                    IF ok /\ sm.store.exists
                    THEN [@ EXCEPT !.inner = "set", !.data = sm.store.messages,
                                   !.storeOps = @ + 1]
                    ELSE [@ EXCEPT !.inner = "create", !.storeOps = @ + 1,
                                   !.missing = ok, !.storeFailed = @ \/ ~ok]]
    /\ UNCHANGED <<ig, fd, run, cc, nodeEnv, emb, collExists, points, st, rq, fn, bt>>

\* addMessage without a session: createSessionWithId
AddCreate(c) ==
    /\ sm[c].inner = "create"
    /\ \E ok \in BOOLEAN :
          sm' = IF ok
                THEN [sm EXCEPT !.store = [exists |-> TRUE, messages |-> <<>>],
                                ![c] = [@ EXCEPT !.inner = "reget", !.storeOps = @ + 1,
                                                 !.wrote = TRUE]]
                ELSE [sm EXCEPT ![c] = CallRaised([@ EXCEPT !.storeOps = @ + 1], TRUE)]
    /\ UNCHANGED <<ig, fd, run, cc, nodeEnv, emb, collExists, points, st, rq, fn, bt>>

\* addMessage without a session: the second getSession; null throws 'Failed
\* to create session', and the session read is assigned to the const
\* sessionData, which throws a TypeError
AddReget(c) ==
    /\ sm[c].inner = "reget"
    /\ \E ok \in BOOLEAN :
          sm' = [sm EXCEPT ![c] = CallRaised([@ EXCEPT !.storeOps = @ + 1], ~ok)]
    /\ UNCHANGED <<ig, fd, run, cc, nodeEnv, emb, collExists, points, st, rq, fn, bt>>

\* addMessage: push, slice and setEx of the session data read before
AddSet(c) ==
    /\ sm[c].inner = "set"
    /\ sm.nextId <= MaxAdds
    /\ \E ok \in BOOLEAN :
          LET messages == PushedAndTrimmed(sm[c].data, sm[c].adding, sm.nextId,
                                           maxMessagesOf(sm.maxChatHistory))
          IN  sm' = IF ok
                    THEN [sm EXCEPT !.store = [exists |-> TRUE, messages |-> messages],
                                    !.nextId = @ + 1,
                                    ![c] = AddReturned([@ EXCEPT !.storeOps = @ + 1],
                                                       messages[Len(messages)])]
                    ELSE [sm EXCEPT !.nextId = @ + 1,
                                    ![c] = CallRaised([@ EXCEPT !.storeOps = @ + 1], TRUE)]
    /\ UNCHANGED <<ig, fd, run, cc, nodeEnv, emb, collExists, points, st, rq, fn, bt>>

\* POST /api/chat/:sessionId: the validation of the message
PostStart ==
    /\ sm.a.pc = "idle"
    /\ \E message \in PostMessages :
          sm' = [sm EXCEPT !.a =
                    IF MessageRejected(message)
                    THEN [SmCallIdle EXCEPT !.op = "post", !.message = message,
                                            !.pc = "done", !.status = 400]
                    ELSE [SmCallIdle EXCEPT !.op = "post", !.message = message,
                                            !.pc = "getSession"]]
    /\ UNCHANGED <<ig, fd, run, cc, nodeEnv, emb, collExists, points, st, rq, fn, bt>>

\* a route that creates the session it answers 404 for
PostGetSessionCreating ==
    /\ sm.a.pc = "getSession"
    /\ \E ok \in BOOLEAN :
          sm' = IF ok /\ sm.store.exists
                THEN [sm EXCEPT !.a =
                         [@ EXCEPT !.pc = "addUser", !.inner = "get",
                                   !.storeOps = @ + 1,
                                   !.adding = [id |-> 0, type |-> "user",
                                               content |-> trim(sm.a.message.text)]]]
                ELSE [sm EXCEPT !.store = [exists |-> TRUE, messages |-> <<>>],
                                !.a = [@ EXCEPT !.pc = "done", !.status = 404,
                                                !.storeOps = @ + 1, !.missing = ok,
                                                !.storeFailed = @ \/ ~ok]]
    /\ UNCHANGED <<ig, fd, run, cc, nodeEnv, emb, collExists, points, st, rq, fn, bt>>

\* POST /api/chat/:sessionId: getSession, 404 without a session, else
\* addMessage of the user message
PostGetSession ==
    /\ sm.a.pc = "getSession"
    /\ \E ok \in BOOLEAN :
          sm' = [sm EXCEPT !.a =
                    IF ok /\ sm.store.exists
                    THEN [@ EXCEPT !.pc = "addUser", !.inner = "get",
                                   !.storeOps = @ + 1,
                                   !.adding = [id |-> 0, type |-> "user",
                                               content |-> trim(sm.a.message.text)]]
                    ELSE [@ EXCEPT !.pc = "done", !.status = 404, !.storeOps = @ + 1,
                                   !.missing = ok, !.storeFailed = @ \/ ~ok]]
    /\ UNCHANGED <<ig, fd, run, cc, nodeEnv, emb, collExists, points, st, rq, fn, bt>>

\* POST /api/chat/:sessionId: retrieveRelevantPassages and generateAnswer,
\* then addMessage of the bot message
PostRag ==
    /\ sm.a.pc = "rag"
    /\ \E context \in SessionContexts(sm.a.message.text), o \in GenOutcomes :
          LET aiResponse == generateAnswer(RouteClassDef, sm.a.message.text, context, o)
          IN  sm' = [sm EXCEPT !.a =
                        IF aiResponse.raised
                        THEN CallRaised([@ EXCEPT !.rag = TRUE,
                                                  !.genRequests = aiResponse.requests],
                                        FALSE)
                        ELSE [@ EXCEPT !.pc = "addBot", !.inner = "get", !.rag = TRUE,
                                       !.genRequests = aiResponse.requests,
                                       !.answer = aiResponse.value,
                                       !.adding = [id |-> 0, type |-> "bot",
                                                   content |-> aiResponse.value]]]
    /\ UNCHANGED <<ig, fd, run, cc, nodeEnv, emb, collExists, points, st, rq, fn, bt>>

\* POST /api/sessions: createSession stores the session under a new id
CreateSession ==
    /\ sm.a.pc = "idle"
    /\ ~sm.store.exists
    /\ \E ok \in BOOLEAN :
          sm' = IF ok
                THEN [sm EXCEPT !.store = [exists |-> TRUE, messages |-> <<>>],
                                !.a = [SmCallIdle EXCEPT !.op = "createSession",
                                                         !.pc = "done", !.status = 201,
                                                         !.storeOps = 1, !.wrote = TRUE]]
                ELSE [sm EXCEPT !.a = [SmCallIdle EXCEPT !.op = "createSession",
                                                         !.pc = "done", !.status = 500,
                                                         !.raised = TRUE, !.storeOps = 1,
                                                         !.storeFailed = TRUE]]
    /\ UNCHANGED <<ig, fd, run, cc, nodeEnv, emb, collExists, points, st, rq, fn, bt>>

\* DELETE /api/sessions/:sessionId: deleteSession tests the key
DeleteSessionStart ==
    /\ sm.a.pc = "idle"
    /\ \E ok \in BOOLEAN :
          sm' = [sm EXCEPT !.a =
                    IF ~ok
                    THEN [SmCallIdle EXCEPT !.op = "deleteSession", !.pc = "done",
                                            !.status = 500, !.raised = TRUE,
                                            !.storeOps = 1, !.storeFailed = TRUE]
                    ELSE IF sm.store.exists
                    THEN [SmCallIdle EXCEPT !.op = "deleteSession", !.pc = "del",
                                            !.storeOps = 1]
                    ELSE [SmCallIdle EXCEPT !.op = "deleteSession", !.pc = "done",
                                            !.status = 404, !.storeOps = 1]]
    /\ UNCHANGED <<ig, fd, run, cc, nodeEnv, emb, collExists, points, st, rq, fn, bt>>

\* deleteSession deletes the key
DeleteSessionDel ==
    /\ sm.a.pc = "del"
    /\ \E ok \in BOOLEAN :
          sm' = IF ok
                THEN [sm EXCEPT !.store = [exists |-> FALSE, messages |-> <<>>],
                                !.a = [@ EXCEPT !.pc = "done", !.status = 200,
                                                !.storeOps = @ + 1, !.wrote = TRUE]]
                ELSE [sm EXCEPT !.a = [@ EXCEPT !.pc = "done", !.status = 500,
                                                !.raised = TRUE, !.storeOps = @ + 1,
                                                !.storeFailed = TRUE]]
    /\ UNCHANGED <<ig, fd, run, cc, nodeEnv, emb, collExists, points, st, rq, fn, bt>>

\* GET /api/sessions/:sessionId/history: the getSession of getSessionHistory;
\* the route answers 404 only for a falsy history
HistoryStart ==
    /\ sm.a.pc = "idle"
    /\ \E ok \in BOOLEAN :
          sm' = [sm EXCEPT !.a =
                    IF ok /\ sm.store.exists
                    THEN [SmCallIdle EXCEPT !.op = "getHistory", !.pc = "done",
                                            !.data = sm.store.messages,
                                            !.status = 200, !.storeOps = 1]
                    ELSE [SmCallIdle EXCEPT !.op = "getHistory", !.pc = "create",
                                            !.storeOps = 1, !.missing = ok,
                                            !.storeFailed = ~ok]]
    /\ UNCHANGED <<ig, fd, run, cc, nodeEnv, emb, collExists, points, st, rq, fn, bt>>

\* getSessionHistory without a session: createSessionWithId and the empty
\* list, which its catch block returns too
HistoryCreate ==
    /\ sm.a.pc = "create"
    /\ sm.a.op = "getHistory"
    /\ \E ok \in BOOLEAN :
          sm' = IF ok
                THEN [sm EXCEPT !.store = [exists |-> TRUE, messages |-> <<>>],
                                !.a = [@ EXCEPT !.pc = "done", !.status = 200,
                                                !.storeOps = @ + 1, !.wrote = TRUE]]
                ELSE [sm EXCEPT !.a = [@ EXCEPT !.pc = "done", !.status = 200,
                                                !.storeOps = @ + 1,
                                                !.storeFailed = TRUE]]
    /\ UNCHANGED <<ig, fd, run, cc, nodeEnv, emb, collExists, points, st, rq, fn, bt>>

\* DELETE /api/sessions/:sessionId/history: the getSession of clearSession
ClearStart ==
    /\ sm.a.pc = "idle"
    /\ \E ok \in BOOLEAN :
          sm' = [sm EXCEPT !.a =
                    IF ok /\ sm.store.exists
                    THEN [SmCallIdle EXCEPT !.op = "clearHistory", !.pc = "reset",
                                            !.storeOps = 1]
                    ELSE [SmCallIdle EXCEPT !.op = "clearHistory", !.pc = "create",
                                            !.storeOps = 1, !.missing = ok,
                                            !.storeFailed = ~ok]]
    /\ UNCHANGED <<ig, fd, run, cc, nodeEnv, emb, collExists, points, st, rq, fn, bt>>

\* clearSession without a session: createSessionWithId
ClearCreate ==
    /\ sm.a.pc = "create"
    /\ sm.a.op = "clearHistory"
    /\ \E ok \in BOOLEAN :
          sm' = IF ok
                THEN [sm EXCEPT !.store = [exists |-> TRUE, messages |-> <<>>],
                                !.a = [@ EXCEPT !.pc = "reget", !.storeOps = @ + 1,
                                                !.wrote = TRUE]]
                ELSE [sm EXCEPT !.a = CallRaised([@ EXCEPT !.storeOps = @ + 1], TRUE)]
    /\ UNCHANGED <<ig, fd, run, cc, nodeEnv, emb, collExists, points, st, rq, fn, bt>>

\* clearSession without a session: the second getSession
ClearReget ==
    /\ sm.a.pc = "reget"
    /\ \E ok \in BOOLEAN :
          sm' = [sm EXCEPT !.a =
                    IF ok /\ sm.store.exists
                    THEN [@ EXCEPT !.pc = "reset", !.storeOps = @ + 1]
                    ELSE CallRaised([@ EXCEPT !.storeOps = @ + 1], ~ok)]
    /\ UNCHANGED <<ig, fd, run, cc, nodeEnv, emb, collExists, points, st, rq, fn, bt>>

\* clearSession: messages = [] and setEx
ClearReset ==
    /\ sm.a.pc = "reset"
    /\ \E ok \in BOOLEAN :
          sm' = IF ok
                THEN [sm EXCEPT !.store = [exists |-> TRUE, messages |-> <<>>],
                                !.a = [@ EXCEPT !.pc = "done", !.status = 200,
                                                !.storeOps = @ + 1, !.wrote = TRUE]]
                ELSE [sm EXCEPT !.a = CallRaised([@ EXCEPT !.storeOps = @ + 1], TRUE)]
    /\ UNCHANGED <<ig, fd, run, cc, nodeEnv, emb, collExists, points, st, rq, fn, bt>>

\* the admin check of GET /api/sessions and POST /api/sessions/cleanup, on
\* the NODE_ENV and the ADMIN_KEY the handler reads from process.env
AccessDenied(env, header, adminKey) == env = "production" /\ header # adminKey

AdminOps == {"listSessions", "cleanup"}

AdminStart ==
    /\ sm.a.pc = "idle"
    /\ \E op \in AdminOps, header \in Headers, adminKey \in AdminKeys,
          env \in NodeEnvs :
          sm' = [sm EXCEPT !.a =
                    IF AccessDenied(env, header, adminKey)
                    THEN [SmCallIdle EXCEPT !.op = op, !.header = header,
                                            !.adminKey = adminKey, !.env = env,
                                            !.pc = "done", !.status = 403]
                    ELSE [SmCallIdle EXCEPT !.op = op, !.header = header,
                                            !.adminKey = adminKey, !.env = env,
                                            !.pc = "keys"]]
    /\ UNCHANGED <<ig, fd, run, cc, nodeEnv, emb, collExists, points, st, rq, fn, bt>>

\* getActiveSessions reads the keys and every session; cleanupExpiredSessions
\* reads the keys and their TTL, and deletes no key, every key being written
\* by setEx
AdminRead ==
    /\ sm.a.pc = "keys"
    /\ \E ok \in BOOLEAN :
          sm' = [sm EXCEPT !.a =
                    IF ok
                    THEN [@ EXCEPT !.pc = "done", !.status = 200,
                                   !.storeOps = IF sm.store.exists THEN 2 ELSE 1]
                    ELSE [@ EXCEPT !.pc = "done", !.status = 500, !.raised = TRUE,
                                   !.storeOps = 1, !.storeFailed = TRUE]]
    /\ UNCHANGED <<ig, fd, run, cc, nodeEnv, emb, collExists, points, st, rq, fn, bt>>

\* the caller has its result
SessionCallEnd(c) ==
    /\ sm[c].pc = "done"
    /\ sm' = [sm EXCEPT ![c] = SmCallIdle]
    /\ UNCHANGED <<ig, fd, run, cc, nodeEnv, emb, collExists, points, st, rq, fn, bt>>

\* the calls and requests of one caller, one after the other
NextSession ==
    \/ AddMessageStart("a")
    \/ AddGet("a")
    \/ AddCreate("a")
    \/ AddReget("a")
    \/ AddSet("a")
    \/ SessionCallEnd("a")
    \/ PostStart
    \/ PostGetSession
    \/ PostRag
    \/ CreateSession
    \/ DeleteSessionStart
    \/ DeleteSessionDel
    \/ HistoryStart
    \/ HistoryCreate
    \/ ClearStart
    \/ ClearCreate
    \/ ClearReget
    \/ ClearReset
    \/ AdminStart
    \/ AdminRead

SpecSession == InitSession /\ [][NextSession]_vars

\* the addMessage calls of two callers, their awaits interleaved
NextSessionConc ==
    \/ \E c \in Callers : AddMessageStart(c)
    \/ \E c \in Callers : AddGet(c)
    \/ \E c \in Callers : AddCreate(c)
    \/ \E c \in Callers : AddReget(c)
    \/ \E c \in Callers : AddSet(c)
    \/ \E c \in Callers : SessionCallEnd(c)
    \/ PostStart
    \/ PostGetSession
    \/ PostRag

SpecSessionConc == InitSession /\ [][NextSessionConc]_vars


-----------------------------------------------------------------------------
(* NewsIngestionService.ingestWithStrategy and ingestComprehensiveArticles *)

MaxCategories == 2
MaxFeeds == 2
MaxTarget == 4

\* the categories of getHundredRSSFeeds in the order of Object.entries, and
\* the feeds of each category in the order of its list
Categories == 1..MaxCategories
CategoryFeeds == 1..MaxFeeds

\* what processSingleFeed(feed, 1) answers for each feed: one valid
\* article (TRUE) or none
FeedYields == [Categories -> [CategoryFeeds -> BOOLEAN]]

\* ingestWithStrategy: 'comprehensive' and every unknown strategy run
\* ingestComprehensiveArticles(targetCount)
InitIngest ==
    /\ nodeEnv = "production"
    /\ emb = EmbIdle
    /\ collExists = FALSE
    /\ points = <<>>
    /\ st = StIdle
    /\ fd = FdIdle
    /\ run = RunIdle
    /\ cc = CcIdle
    /\ rq = RqIdle
    /\ fn = FnIdle
    /\ bt = BtIdle
    /\ sm = SmIdle
    /\ ig \in {[IgIdle EXCEPT !.pc = "feed", !.yields = y, !.targetCount = t,
                               !.category = 1, !.i = 1] :
                  y \in FeedYields, t \in 0..MaxTarget}

\* one turn of the loop over the feeds of the current category: stop when
\* the target is reached, else push what processSingleFeed answered and
\* stop when that reached the target, else go on with the next feed, or
\* with the first feed of the next category
IngestFeedTurn ==
    /\ ig.pc = "feed"
    /\ LET articles == IF ig.yields[ig.category][ig.i]
                       THEN <<[category |-> ig.category, feed |-> ig.i]>>
                       ELSE <<>>
           pushed == ig.allArticles \o articles
       IN  ig' = IF Len(ig.allArticles) >= ig.targetCount
                 THEN [ig EXCEPT !.pc = "summary"]
                 ELSE IF Len(pushed) >= ig.targetCount
                 THEN [ig EXCEPT !.pc = "summary", !.allArticles = pushed]
                 ELSE IF ig.i < MaxFeeds
                 THEN [ig EXCEPT !.i = @ + 1, !.allArticles = pushed]
                 ELSE IF ig.category < MaxCategories
                 THEN [ig EXCEPT !.category = @ + 1, !.i = 1, !.allArticles = pushed]
                 ELSE [ig EXCEPT !.pc = "summary", !.allArticles = pushed]
    /\ UNCHANGED <<sm, fd, run, cc, nodeEnv, emb, collExists, points, st, rq, fn, bt>>

\* after the loops: log the statistics and return allArticles
IngestReturn ==
    /\ ig.pc = "summary"
    /\ ig' = [ig EXCEPT !.pc = "done", !.result = ig.allArticles]
    /\ UNCHANGED <<sm, fd, run, cc, nodeEnv, emb, collExists, points, st, rq, fn, bt>>

NextIngest ==
    \/ IngestFeedTurn
    \/ IngestReturn

SpecIngest == InitIngest /\ [][NextIngest]_vars

-----------------------------------------------------------------------------
(* The claims *)

\* the chat request has its answer (or generateAnswer's error)
Answered == rq.pc \in {"respond", "done"}

\* C1: for every query and every outcome of the embedding provider, the
\* vector store and the generation provider, retrieveRelevantPassages
\* followed by generateAnswer returns a non-empty string and raises nothing,
\* the payloads being those storeArticles wrote.
C1_AnswerIsAlwaysText ==
    Answered => ~rq.raised /\ IsTruthy(rq.answer)

\* C1 witness: the generation call failed on a context whose first passage
\* has no description, and the answer is the summary cut from its content.
C1_Witness ==
    /\ rq.pc = "respond"
    /\ rq.outcome \in {"status", "timeout"}
    /\ Len(rq.context) > 0
    /\ ~IsTruthy(rq.context[1].description)
    /\ rq.answer = FallbackSummary(rq.def, rq.query, rq.context[1])

\* the storeArticles call ended in its loop, on the embedding error of
\* article st.i, after the articles before it were embedded
EmbeddingFailedInBatch ==
    /\ st.op = "storeArticles"
    /\ st.pc = "done"
    /\ st.upsert = "none"
    /\ 1 < st.i
    /\ st.i <= Len(st.articles)

\* C2: a batch in which the embedding of some documents fails and that of
\* the others succeeds does not make storeArticles raise: the documents
\* embedded are upserted and their count is returned.
C2_PartialBatchIsStored ==
    EmbeddingFailedInBatch => st.result.kind = "returned"

\* C3: the sources sent with an answer have one entry per passage of the
\* context given to generateAnswer, no other entry, and the same order.
C3_SourcesAreTheContext ==
    (rq.pc = "done" /\ rq.sent) =>
        /\ Len(rq.sources) = Len(rq.context)
        /\ \A i \in 1..Len(rq.context) :
              /\ rq.sources[i].title = rq.context[i].title
              /\ rq.sources[i].source = rq.context[i].source
              /\ rq.sources[i].url = rq.context[i].url

\* C3 witness: a POST answer sent with two sources of different titles, the
\* second of which scored below 0.5.
C3_Witness ==
    /\ rq.pc = "done"
    /\ rq.sent
    /\ rq.route = "post"
    /\ Len(rq.sources) = 2
    /\ rq.sources[1].title # rq.sources[2].title
    /\ rq.context[2].similarity = ScoreThreshold

\* the generation call was issued and failed: a timeout, an error status or
\* a response without the text field
GenerationFailed ==
    /\ Answered
    /\ Len(rq.context) > 0
    /\ rq.genRequests = 1
    /\ rq.outcome \in {"timeout", "status", "nofield"}

\* C4: on every failure of the generation call with a non-empty context,
\* generateAnswer returns the summary built from context[0] (its title and
\* its description, or the first 200 characters of its content) and no
\* other text.
C4_FailureGivesSummary ==
    GenerationFailed =>
        /\ ~rq.raised
        /\ rq.answer = FallbackSummary(rq.def, rq.query, rq.context[1])

\* C5: with an empty context generateAnswer returns the fixed "nothing
\* relevant found" message and sends nothing to the generation provider.
C5_EmptyContextIsTerminal ==
    (Answered /\ rq.context = <<>>) =>
        /\ ~rq.raised
        /\ rq.answer = NoContextMessage(rq.def)
        /\ rq.genRequests = 0

\* C5 witness: the search found nothing above the threshold in a collection
\* that holds points, and the answer is the fixed message.
C5_Witness ==
    /\ rq.pc = "respond"
    /\ rq.context = <<>>
    /\ collExists
    /\ points # <<>>
    /\ rq.outcome = "ok"
    /\ rq.answer = NoContextMessage(rq.def)

\* generateEmbeddings returned what the provider computed
ProviderAnswered ==
    /\ emb.pc = "done"
    /\ emb.op = "generateEmbeddings"
    /\ emb.outcome = "ok"
    /\ ~emb.result.raised

\* C6: when the provider's response holds one item per input, in any order,
\* the i-th element generateEmbeddings returns has the normalized texts[i]
\* as its text and the vector computed for texts[i].
C6_EmbeddingsInInputOrder ==
    ProviderAnswered =>
        /\ Len(emb.result.value) = Len(emb.texts)
        /\ \A i \in 1..Len(emb.texts) :
              /\ emb.result.value[i].text = cleanText(emb.texts[i])
              /\ emb.result.value[i].embedding = ProviderVector(cleanText(emb.texts[i]))

\* the provider call of generateEmbeddings was issued and failed
ProviderFailed ==
    /\ emb.pc = "done"
    /\ emb.op = "generateEmbeddings"
    /\ emb.outcome \in EmbedFailures
    /\ emb.result.requests = 1

\* C7: when the provider call fails, generateEmbeddings raises in the
\* production configuration and returns one synthetic vector per input in
\* every other configuration.
C7_FallbackOutsideProduction ==
    ProviderFailed =>
        IF nodeEnv = "production"
        THEN emb.result.raised
        ELSE /\ ~emb.result.raised
             /\ Len(emb.result.value) = Len(emb.texts)
             /\ \A i \in 1..Len(emb.texts) :
                   emb.result.value[i].embedding = DummyVector

\* C8: generateEmbeddings of an empty sequence raises in every
\* configuration and sends nothing to the provider.
C8_EmptyInputRaises ==
    (emb.pc = "done" /\ emb.op = "generateEmbeddings" /\ emb.texts = <<>>) =>
        /\ emb.result.raised
        /\ emb.result.requests = 0

\* retrieveRelevantPassages has returned
Retrieved == rq.pc \in {"generate", "respond", "done"}

\* C9: retrieveRelevantPassages(query, k) returns at most k passages, each
\* of similarity at least 0.3, in the order of the store's answer.
C9_PassagesWithinLimitAndThreshold ==
    Retrieved =>
        /\ Len(rq.context) <= rq.k
        /\ Len(rq.context) = Len(rq.searchResult)
        /\ \A i \in 1..Len(rq.context) :
              /\ rq.context[i].similarity >= ScoreThreshold
              /\ rq.context[i].similarity = rq.searchResult[i].score
              /\ rq.context[i].title = points[rq.searchResult[i].id].payload.title
              /\ rq.context[i].content = points[rq.searchResult[i].id].payload.content

\* C9 witness: with k = 1 and two stored points, one passage is returned.
C9_Witness ==
    /\ rq.pc = "generate"
    /\ rq.k = 1
    /\ Len(points) = 2
    /\ Len(rq.context) = 1

\* C10: when the upsert raises, storeArticles does not raise: it returns 0.
C10_UpsertFailureReturnsZero ==
    (st.op = "storeArticles" /\ st.pc = "done" /\ st.upsert = "failed") =>
        st.result = Returned(0)


Cleaned == fn.pc = "done" /\ fn.op \in {"cleanText", "ingestCleanText"}

\* C12: cleanText is idempotent, in the embedding service and in the
\* ingestion service: cleaning a cleaned text changes nothing.
C12_CleanTextIsIdempotent ==
    Cleaned => fn.twice = fn.once

\* extractRelevantText was applied to a payload and a query
Extracted == fn.pc = "done" /\ fn.op = "extractRelevantText"

\* the title-description-content text of a payload, the query's words and
\* the sentences of the text that have at least n characters
FullTextOf(p) ==
    Interpolate(p.title) \o <<" ">> \o Interpolate(p.description)
        \o <<" ">> \o Interpolate(p.content)
WordsOf(q) == SelectSeq(split(toLowerCase(q), " "), LAMBDA w : Len(w) > MinWordLength)
SentencesFrom(p, n) == SelectSeq(SplitSentences(FullTextOf(p)), LAMBDA s : Len(s) >= n)

C14_FallbackIsDescriptionOrFullText ==
    Extracted =>
        LET c == SentencesFrom(fn.payload, MinSentenceLength + 1)
            w == WordsOf(fn.query)
        IN  (\A i \in 1..Len(c) : Matches(c[i], w) = 0) =>
                /\ ~fn.result.raised
                /\ fn.result.value =
                      IF IsTruthy(fn.payload.description) THEN fn.payload.description
                      ELSE substring(FullTextOf(fn.payload), 0, ExcerptLimit)

\* C15: a sentence is discarded exactly when it has fewer than 20
\* characters: when a sentence of 20 characters or more contains a query
\* word, the excerpt returned is one of these sentences.
C15_SentenceOfTwentyIsCandidate ==
    Extracted =>
        LET c == SentencesFrom(fn.payload, MinSentenceLength)
            w == WordsOf(fn.query)
        IN  (\E i \in 1..Len(c) : Matches(c[i], w) > 0) =>
                \E i \in 1..Len(c) : fn.result.value = trim(c[i])

\* the results of the batches that succeeded, in batch order
RECURSIVE SucceededResults(_)
SucceededResults(chunks) ==
    IF chunks = <<>> THEN <<>>
    ELSE (IF Head(chunks).ok THEN Head(chunks).embeddings ELSE <<>>)
             \o SucceededResults(Tail(chunks))

\* the number of batches of at most size texts that n texts make
BatchCount(n, size) == (n + size - 1) \div size

\* what holds of a call b that has returned
BatchResultOk(b) ==
    /\ ~b.raised
    /\ Len(b.chunks) = BatchCount(Len(b.texts), b.batchSize)
    /\ \A j \in 1..Len(b.chunks) :
          /\ b.chunks[j].from = (j - 1) * b.batchSize
          /\ Len(b.chunks[j].batch) <= b.batchSize
          /\ b.chunks[j].batch =
                SubSeq(b.texts, (j - 1) * b.batchSize + 1,
                       Min(j * b.batchSize, Len(b.texts)))
    /\ b.allEmbeddings = SucceededResults(b.chunks)

\* C16: for every list of texts and every batchSize >= 1,
\* batchGenerateEmbeddings ends without raising: every turn of its loop,
\* failed or not, moves on by batchSize texts, and the loop ends when no
\* text is left. The batches it attempted are, in order and each once, the
\* consecutive slices of at most batchSize texts that make up the list, and
\* it returns the results of the batches that succeeded, in batch order.
C16_BatchesAllAttemptedFailuresSkipped ==
    [][/\ bt.pc = "loop" =>
              \/ /\ bt'.pc = "loop"
                 /\ bt.i < Len(bt.texts)
                 /\ bt'.i = bt.i + bt.batchSize
                 /\ Len(bt.texts) - bt'.i < Len(bt.texts) - bt.i
                 /\ Len(bt'.chunks) = Len(bt.chunks) + 1
              \/ /\ bt'.pc = "done"
                 /\ bt.i >= Len(bt.texts)
       /\ bt'.pc = "done" => BatchResultOk(bt')]_vars

\* C16 witness: of two batches the first, of two texts, failed, and the
\* second, of the one text left, succeeded and makes up the result.
C16_Witness ==
    /\ bt.pc = "done"
    /\ Len(bt.chunks) = 2
    /\ Len(bt.chunks[1].batch) = 2
    /\ ~bt.chunks[1].ok
    /\ Len(bt.chunks[2].batch) = 1
    /\ bt.chunks[2].ok
    /\ Len(bt.allEmbeddings) = 1

\* the retries the documentation gives a failed provider request
DocumentedRetries == 3

\* C17: when its request to the embedding provider fails, generateEmbeddings
\* sends it again, up to 3 more times, before it raises or falls back.
C17_FailedRequestIsRetried ==
    (emb.pc = "done" /\ emb.op = "generateEmbeddings" /\ emb.outcome \in EmbedFailures) =>
        /\ emb.result.requests > 1
        /\ emb.result.requests <= 1 + DocumentedRetries

\* C18: the point storeArticles builds for an article of the ingestion
\* service carries the article's title, description, content, url, source,
\* category and publish date unchanged.
C18_PayloadKeepsArticleFields ==
    st.op = "storeArticles" =>
        \A j \in 1..Len(st.pts) :
            LET article == st.articles[j]
                payload == st.pts[j].payload
            IN  article \in IngestedArticles =>
                    /\ payload.title = article.title
                    /\ payload.description = article.description
                    /\ payload.content = article.content
                    /\ payload.url = article.url
                    /\ payload.source = article.source
                    /\ payload.category = article.category
                    /\ payload.publishDate = article.pubDate

\* two payloads are those of the same document
SameDocument(p, q) ==
    /\ p.title = q.title
    /\ p.description = q.description
    /\ p.content = q.content
    /\ p.url = q.url

\* C19: as long as the collection is not cleared, a point keeps its
\* document: a storeArticles call overwrites a stored point only with the
\* same document, because two different documents never get the same id.
C19_PointIdsIdentifyDocuments ==
    [][(collExists /\ collExists') =>
           \A id \in DOMAIN points :
               /\ id \in DOMAIN points'
               /\ SameDocument(points[id].payload, points'[id].payload)]_vars

\* C20: storeArticles sends no empty text to the embedding provider and
\* builds no point for a document whose title, description and content are
\* all empty.
C20_EmptyDocumentIsRejected ==
    st.op = "storeArticles" =>
        /\ \A j \in 1..Len(st.submitted) : Len(st.submitted[j]) > 0
        /\ \A j \in 1..Len(st.pts) :
              \/ IsTruthy(st.pts[j].payload.title)
              \/ IsTruthy(st.pts[j].payload.description)
              \/ IsTruthy(st.pts[j].payload.content)

\* C21: every article processSingleFeed returns has a title of at least 10
\* characters, a description of at least 30 characters, a source and a url
\* that are not empty.
C21_ReturnedArticlesAreValid ==
    \A i \in 1..Len(fd.articles) :
        /\ Len(fd.articles[i].title) >= MinTitleLength
        /\ Len(fd.articles[i].description) >= MinDescriptionLength
        /\ IsTruthy(fd.articles[i].source)
        /\ IsTruthy(fd.articles[i].url)

\* C21 witness: of the two items of an attempt one was skipped and the
\* article of the other was returned.
C21_Witness ==
    /\ fd.pc = "done"
    /\ fd.skipped = 1
    /\ Len(fd.articles) = 1

\* C22: in every configuration, every vector of an upsert that storeArticles
\* issues and every query vector that retrieveRelevantPassages sends to the
\* store has the vector size of the collection.
C22_VectorsMatchCollectionSize ==
    /\ (st.op = "storeArticles" /\ st.upsert # "none") =>
           \A j \in 1..Len(st.pts) : st.pts[j].vector.dim = CollectionVectorSize
    /\ rq.pc = "search" => rq.vec.dim = CollectionVectorSize

\* C23: healthCheck reports 'unhealthy' whenever getCollections or
\* getCollection fails and 'healthy' only when both answer, and /api/health
\* answers 503 when the vector store is unreachable
C23_UnreachableStoreIsUnhealthy ==
    (run.kind = "health" /\ run.pc = "done") =>
        /\ (run.hc.status = "unhealthy") <=> ~(run.listOk /\ run.getOk)
        /\ ~(run.listOk /\ run.getOk) => run.http = 503

\* C25: with --clear and a collection that holds articles no question is
\* asked, and clearAllArticles is called before the articles are stored
C25_ClearFlagClearsWithoutAsking ==
    (run.kind = "script" /\ run.clear /\ run.count > 0) =>
        /\ ~run.prompted
        /\ run.storeCalled => run.clearedFirst



\* C24: cosine similarity raises exactly when the two vectors differ in
\* length, all zeros or not, and returns 0 without error for two vectors of
\* equal length of which one has zero magnitude
ZeroMagnitude(v) == \A i \in 1..Len(v) : v[i] = 0
C24_CosineRaisesOnLengthOnly ==
    (fn.op = "calculateCosineSimilarity" /\ fn.pc = "done") =>
        /\ fn.result.raised <=> Len(fn.vectorA) # Len(fn.vectorB)
        /\ (Len(fn.vectorA) = Len(fn.vectorB)
               /\ (ZeroMagnitude(fn.vectorA) \/ ZeroMagnitude(fn.vectorB)))
              => (~fn.result.raised /\ fn.result.value[1] = 0)
C24_Witness ==
    /\ fn.op = "calculateCosineSimilarity" /\ fn.pc = "done"
    /\ fn.vectorA = <<0, 0>> /\ fn.vectorB = <<1, -1>>
    /\ ~fn.result.raised /\ fn.result.value[1] = 0
C24_WitnessRaised ==
    /\ fn.op = "calculateCosineSimilarity" /\ fn.pc = "done"
    /\ fn.vectorA = <<0>> /\ fn.vectorB = <<0, 0>>
    /\ fn.result.raised



\* C26: of two interleaved calls of initialize none issues createCollection
\* for a collection that exists, and none ends with the error of a
\* collection that exists
C26_InterleavedInitializeCreatesOnce ==
    /\ ((st.op = "initialize" /\ st.pc = "create") \/ cc.pc = "create") => ~collExists
    /\ cc.error # "collectionExists"

\* C27: once initialize has succeeded the collection exists whenever no call
\* of clearAllArticles is in progress, also after one that raised
ClearInProgress == st.op = "clearAllArticles" /\ st.pc # "done"
C27_CollectionSurvivesClear ==
    (cc.initialized /\ ~ClearInProgress) => collExists



\* C28: a search made while clearAllArticles is in progress, the collection
\* deleted and not yet recreated, gives the empty list, and a request with
\* the empty list is answered, without error, by the no-context message
ClearGap == st.op = "clearAllArticles" /\ st.pc \in {"list", "create"} /\ ~collExists
C28_RetrieveDuringClearNeverRaises ==
    [][/\ (ClearGap /\ rq.pc = "search" /\ rq'.pc # "search")
            => (rq'.pc = "generate" /\ rq'.context = <<>> /\ ~rq'.raised)
       /\ (ClearInProgress /\ rq.pc = "generate" /\ rq.context = <<>>
             /\ rq'.pc # "generate")
            => (rq'.answer = NoContextMessage(rq'.def) /\ ~rq'.raised)]_vars
C28_Witness ==
    /\ ClearGap
    /\ rq.pc = "respond" /\ rq.searchResult = <<>> /\ rq.context = <<>>
    /\ rq.answer = NoContextMessage(rq.def)



\* C29: storeArticles issues its one upsert only when every article of the
\* batch has its point; no other step of the call changes the collection,
\* so a call whose embedding raised has issued no upsert and left the
\* contents as they were; the count returned is the number of points of the
\* upsert
C29_OneUpsertAfterAllEmbedded ==
    [][(st.op = "storeArticles" /\ st'.op = "storeArticles") =>
          /\ st'.upsert # st.upsert =>
                 /\ st.upsert = "none"
                 /\ st.pc = "upsert" /\ st'.pc = "done"
                 /\ st'.pts = st.pts
                 /\ Len(st.pts) = Len(st.articles)
          /\ points' # points => (st'.upsert = "ok" /\ st.upsert = "none")
          /\ st'.error = "embedding" => (st'.upsert = "none" /\ points' = points)
          /\ st'.result.kind = "returned" =>
                 (st'.upsert = "ok" /\ st'.result.count = Len(st'.pts))]_vars
C29_Witness ==
    /\ st.op = "storeArticles" /\ st.pc = "done"
    /\ st.error = "embedding" /\ st.upsert = "none"
    /\ Len(st.articles) = 2 /\ Len(st.pts) = 1
    /\ Cardinality(DOMAIN points) = 1
C29_WitnessReturned ==
    /\ st.op = "storeArticles" /\ st.pc = "done"
    /\ st.upsert = "ok" /\ st.result = Returned(2)
    /\ Cardinality(DOMAIN points) = 2

\* C30: batchGenerateEmbeddings delays after every chunk but the last, failed
\* or not; each chunk being one request, its delays are one fewer than its
\* chunks
C30_DelayBetweenConsecutiveRequests ==
    (bt.pc = "done" /\ Len(bt.chunks) > 0) => bt.delays = Len(bt.chunks) - 1



\* C31: the stages of a chat request run in the order embed, search,
\* extract, generate: the search is issued with the vector the embedding
\* returned, a generation request is issued only from the generate stage on
\* a context that holds one extracted passage per search hit, and none is
\* issued on an empty context (no hit, or a failed embedding or search)
StageOrder ==
    {<<"idle", "embed">>, <<"embed", "search">>, <<"embed", "generate">>,
     <<"search", "generate">>, <<"generate", "respond">>, <<"respond", "done">>,
     <<"done", "idle">>}
C31_StagesRunInOrder ==
    [][/\ rq'.pc # rq.pc => <<rq.pc, rq'.pc>> \in StageOrder
       /\ (rq.pc # "search" /\ rq'.pc = "search")
            => (rq.pc = "embed" /\ rq'.vec # NoVector /\ rq'.genRequests = 0)
       /\ rq'.genRequests > rq.genRequests =>
              /\ rq.pc = "generate"
              /\ Len(rq.context) > 0
              /\ Len(rq.context) = Len(rq.searchResult)
       /\ (rq.pc = "generate" /\ rq.context = <<>>) => rq'.genRequests = 0]_vars
C31_Witness ==
    /\ rq.pc = "respond"
    /\ rq.genRequests = 1
    /\ Len(rq.searchResult) = 2
    /\ Len(rq.context) = 2



\* C32: addMessage for a session id without a stored session, the store
\* answering every command, creates the session and stores the message: it
\* does not raise, the history ends with the message and the call returns it
C32_AddMessageCreatesMissingSession ==
    (sm.a.op = "addMessage" /\ sm.a.pc = "done" /\ sm.a.missing /\ ~sm.a.storeFailed) =>
        /\ ~sm.a.raised
        /\ sm.store.exists
        /\ Len(sm.store.messages) > 0
        /\ sm.store.messages[Len(sm.store.messages)] = sm.a.returned
        /\ sm.a.returned.content = sm.a.adding.content

\* C33: the stored session never holds more than maxMessages messages, and
\* an addMessage that stores leaves the last maxMessages of the history it
\* read followed by the new message, in their order, the new message last
MaxMessages == maxMessagesOf(sm.maxChatHistory)
C33_HistoryCappedKeepingNewest ==
    [][/\ Len(sm'.store.messages) <= MaxMessages
       /\ (sm.a.inner = "set" /\ sm'.a.inner = "none" /\ ~sm'.a.raised) =>
            LET pushed == Append(sm.store.messages,
                                 [id |-> sm.nextId, type |-> sm.a.adding.type,
                                  content |-> sm.a.adding.content])
                kept == sm'.store.messages
            IN  /\ Len(kept) = Min(Len(pushed), MaxMessages)
                /\ \A i \in 1..Len(kept) :
                       kept[i] = pushed[Len(pushed) - Len(kept) + i]]_vars
C33_Witness ==
    /\ sm.maxChatHistory = 2
    /\ sm.a.op = "addMessage" /\ sm.a.pc = "done" /\ ~sm.a.raised
    /\ Len(sm.store.messages) = 2
    /\ sm.store.messages[1].id = 2
    /\ sm.store.messages[2].id = 3

\* C34: while the history is below the cap, the message of every addMessage
\* call that returned is in the stored history, also when the calls of two
\* callers interleave
ReturnedMessageStored(c) ==
    (sm[c].op = "addMessage" /\ sm[c].pc = "done" /\ ~sm[c].raised) =>
        \E i \in 1..Len(sm.store.messages) : sm.store.messages[i].id = sm[c].returned.id
C34_ConcurrentMessagesAllStored ==
    Len(sm.store.messages) < MaxMessages => \A c \in Callers : ReturnedMessageStored(c)

\* C35: a POST /api/chat/:sessionId answered 400 or 404 has written no
\* session, created none, and has not reached retrieval or generation
C35_RejectedPostChangesNothing ==
    [][(sm'.a.op = "post" /\ sm'.a.pc \in {"getSession", "done"}
          /\ sm'.a.status \in {0, 400, 404}) =>
            /\ sm'.store = sm.store
            /\ ~sm'.a.wrote
            /\ ~sm'.a.rag
            /\ sm'.a.genRequests = 0]_vars
C35_Witness ==
    /\ sm.a.op = "post" /\ sm.a.pc = "done" /\ sm.a.status = 404
    /\ sm.a.missing /\ ~sm.store.exists
C35_WitnessInvalid ==
    /\ sm.a.op = "post" /\ sm.a.pc = "done" /\ sm.a.status = 400
    /\ sm.a.message = MessageLong /\ sm.store.exists /\ Len(sm.store.messages) = 2

\* C36: a POST /api/chat/:sessionId with a valid message on a stored
\* session, every command of the session store succeeding, ends with 200
\* whatever retrieval and generation did, and the history then holds the
\* user message and, after it, the bot reply sent to the client
C36_ValidPostAnswers200 ==
    (sm.a.op = "post" /\ sm.a.pc = "done" /\ ~MessageRejected(sm.a.message)
       /\ ~sm.a.missing /\ ~sm.a.storeFailed) =>
        /\ sm.a.status = 200
        /\ sm.a.returned.type = "bot"
        /\ sm.a.returned.content = sm.a.answer
        /\ sm.a.userMessage.content = trim(sm.a.message.text)
        /\ \E i, j \in 1..Len(sm.store.messages) :
               /\ i < j
               /\ sm.store.messages[i] = sm.a.userMessage
               /\ sm.store.messages[j] = sm.a.returned

\* C37: GET and DELETE /api/sessions/:id/history for an id without a stored
\* session answer 404 and leave the store without a session for the id
C37_HistoryOfMissingSessionIs404 ==
    (sm.a.op \in {"getHistory", "clearHistory"} /\ sm.a.pc = "done" /\ sm.a.missing
       /\ ~sm.a.storeFailed) =>
        /\ sm.a.status = 404
        /\ ~sm.store.exists

\* C40: in production GET /api/sessions and POST /api/sessions/cleanup
\* answer 403 and send no command to the session store unless the request
\* carries the configured admin key, also when no key is configured and
\* the request has no header
CarriesAdminKey(call) == call.adminKey # Undefined /\ call.header = call.adminKey
C40_AdminRoutesNeedTheKey ==
    (sm.a.op \in AdminOps /\ sm.a.pc = "done" /\ sm.a.env = "production"
       /\ ~CarriesAdminKey(sm.a)) =>
        /\ sm.a.status = 403
        /\ sm.a.storeOps = 0



\* C38: for every behaviour of the feed and every retries >= 1,
\* processSingleFeed ends, fetches the feed between 1 and retries times,
\* fetches no more after an attempt that yielded a valid article or parsed
\* a feed without items, and returns articles exactly when an attempt
\* yielded a valid one
C38_ProcessSingleFeedTerminates ==
    /\ <>(fd.pc = "done")
    /\ [][/\ (fd.yielded \/ fd.noItems) => fd'.fetches = fd.fetches
          /\ fd'.fetches <= fd'.retries
          /\ fd'.pc = "done" =>
                /\ fd'.fetches >= 1
                /\ Len(fd'.articles) > 0 <=> fd'.yielded]_vars
C38_Witness ==
    /\ fd.pc = "done"
    /\ fd.retries = 3
    /\ fd.fetches = 3
    /\ fd.parses = 2
    /\ Len(fd.articles) = 1
C38_WitnessGivenUp ==
    /\ fd.pc = "done"
    /\ fd.retries = 2
    /\ fd.fetches = 2
    /\ fd.articles = <<>>
    /\ ~fd.noItems



\* C39: with the comprehensive strategy, a target count of at least the
\* number of categories and a feed yielding a valid article in every
\* category, the returned articles hold an article of every category
EveryCategoryYields == \A c \in Categories : \E f \in CategoryFeeds : ig.yields[c][f]
C39_EveryCategoryRepresented ==
    (ig.pc = "done" /\ ig.targetCount >= MaxCategories /\ EveryCategoryYields) =>
        \A c \in Categories :
            \E k \in 1..Len(ig.result) : ig.result[k].category = c


=============================================================================
